---- MODULE Spec2Model ----
(***************************************************************************)
(* A model of the scrape path of sql_exporter: one Target gathering its    *)
(* collectors over a shared database handle (Target.Gather, OpenConnection,*)
(* PingDB, collector.Collect, Query.Run), and the derivation of the scrape *)
(* deadline in the HTTP handler (contextFor).                              *)
(***************************************************************************)
EXTENDS Integers, Sequences, FiniteSets, TLC

(***************************************************************************)
(* Bounds of the model.                                                    *)
(***************************************************************************)
MaxRows == 1         \* rows a result set can return
ChanCap == 1         \* capacity of the sample channel
MaxConns == 1        \* global.max_connections handed to OpenConnection
MaxT == 4            \* largest duration (in ticks) tried by contextFor

(***************************************************************************)
(* The configuration of the target: two collectors, A with two queries and *)
(* B with one; every query feeds one metric family.                        *)
(***************************************************************************)
Collectors == {"A", "B"}

CollQueries(c) == IF c = "A" THEN <<"qa1", "qa2">> ELSE <<"qb1">>

Queries == {"qa1", "qa2", "qb1"}

QueryFamilies(q) ==
    CASE q = "qa1" -> <<"m1">>
      [] q = "qa2" -> <<"m2">>
      [] OTHER     -> <<"m3">>

FamilyValues(f) == <<"x">>

\* The database: qa1 and qa2 are aggregates returning at most one row, qb1
\* returns up to MaxRows rows.
RowLimit(q) == IF q = "qb1" THEN MaxRows ELSE 1

ConstLabels == {<<"instance", "db1">>, <<"job", "j1">>}

NoHandle == "none"
Handle == "h"

VARIABLES
    pcG,         \* where Target.Gather is
    ctxDone,     \* the scrape context is cancelled or past its deadline
    handle,      \* Target.conn: NoHandle until OpenConnection returned one
    openTask,    \* the goroutine OpenConnection starts for sql.Open
    pingTask,    \* the goroutine PingDB starts for PingContext
    opens,       \* OpenConnection calls made by the current Gather
    pings,       \* PingDB calls made by the current Gather
    pc,          \* where each collector's Collect is
    qi,          \* index of the query each collector is at
    rowN,        \* rows read from the collector's current result set
    pending,     \* metrics the collector still has to send for this step
    cont,        \* where Collect goes on once pending is sent
    rowsOpen,    \* the collector holds an open result set (a connection)
    runs,        \* outcome of Query.Run per query in the current scrape
    sent,        \* samples each collector has put on the channel
    chan,        \* the sample channel
    chClosed,    \* the channel has been closed
    result,      \* samples gathered into the returned metric families
    errs,        \* the returned error list
    synth,       \* the synthetic samples emitted by the current Gather
    prevUp,      \* outcome of the previous Gather: "none", "up" or "down"
    hadHandle,   \* a handle existed when the current Gather began
    early,       \* the context expired before the collectors were started
    hdr,         \* contextFor: the X-Prometheus-Scrape-Timeout-Seconds value
    off,         \* contextFor: global.scrape_timeout_offset
    cfgT,        \* contextFor: global.scrape_timeout
    ctxPc,       \* contextFor: "in" before the call, "out" after
    deadline,    \* contextFor: timeout of the returned context, 0 for none
    hPc,         \* handler: "start", "gather" or "done"
    tctx,        \* handler: timeout of the context each target is gathered under
    tres,        \* handler: what each target's Gather found, "up" or "down"
    status,      \* handler: the HTTP status written, 0 before
    families,    \* metrics: the metric configs of the families of one query
    rowCols,     \* metrics: the columns of the result set
    mPc,         \* metrics: "in", then which Collect has run
    mOut,        \* metrics: what was sent on the channel
    mPanic,      \* metrics: the call panicked
    mErr,        \* metrics: the entries of the list in ScanRow's error
    kMetrics,    \* collector: the metric configs of the CollectorConfig
    kPc,         \* collector: "config", "failed", "built", "collect" or "scraped"
    kQueries,    \* collector: collector.queries
    kErr,        \* collector: the column NewCollector's error names
    kIdx,        \* collector: position of Collect in collector.queries
    kExec,       \* collector: the queries Collect has run in this scrape
    qConn,       \* query: Query.conn, NoHandle while nil
    qStmt,       \* query: Query.stmt, 0 while nil, else the number of the statement
    qPrepares,   \* query: statements prepared so far
    qHist,       \* query: the Run calls made so far, with what they did
    doc,         \* config: the content of the configuration file
    lPc,         \* config: "file", then what was done with it last
    lCfg,        \* config: the Config that LoadConfig returned
    lOut,        \* config: what Config.YAML rendered
    lCfg2,       \* config: the Config loaded from the rendering
    lNames,      \* config: <<configured, exported>> metric names
    srcs,        \* merge: what each gatherer returns, in gatherer order
    mgIdx,       \* merge: the gatherer MergingGatherer.Gather is at
    mgMfs,       \* merge: mfs, the families merged so far
    mgRet,       \* merge: "none", then the error Gather returned
    aFn,         \* adapter: the call being made, "open" or "ping"
    aCtx,        \* adapter: ctx.Done() is closed
    aDrv,        \* adapter: "running", then what the driver call returned
    aHelper,     \* adapter: the helper goroutine: "call", "send", "close", "done"
    aBuf,        \* adapter: the values in ch, or the one handed to the receiver
    aClosed,     \* adapter: ch is closed
    aSel,        \* adapter: the caller's select: "enter", "parked", "ctx" or "ch"
    aRet,        \* adapter: "none", then what the caller returned
    aFirst,      \* adapter: which came first, "ctx" or "drv"; "none" before
    aRace,       \* adapter: both cases were ready when the select chose
    xCtx,        \* Collect: ctx.Err() is not nil
    xPc,         \* Collect: "idle", "loop", "rows" or "returned"
    xIdx,        \* Collect: the query the loop is at
    xRowN,       \* Collect: rows read from the current result set
    xOpen,       \* Collect: the queries whose result set is open
    xRan,        \* Collect: the calls of q.Run, in order: the query and whether it succeeded
    xOut,        \* Collect: what was sent on ch, in order
    rPc,         \* serving: where each request's goroutine is
    rAt,         \* serving: the target each request is gathering
    rStmt,       \* serving: q.stmt of each target's query, 0 for nil
    rPrepares    \* serving: PrepareContext calls made for each target's query

tvars == <<pcG, ctxDone, handle, openTask, pingTask, opens, pings,
           pc, qi, rowN, pending, cont, rowsOpen, runs, sent,
           chan, chClosed, result, errs, synth, prevUp, hadHandle, early>>

cvars == <<hdr, off, cfgT, ctxPc, deadline>>

hvars == <<hPc, tctx, tres, status>>

mvars == <<families, rowCols, mPc, mOut, mPanic, mErr>>

kvars == <<kMetrics, kPc, kQueries, kErr, kIdx, kExec>>

qvars == <<qConn, qStmt, qPrepares, qHist>>

lvars == <<doc, lPc, lCfg, lOut, lCfg2, lNames>>

gvars == <<srcs, mgIdx, mgMfs, mgRet>>

avars == <<aFn, aCtx, aDrv, aHelper, aBuf, aClosed, aSel, aRet, aFirst, aRace>>

xvars == <<xCtx, xPc, xIdx, xRowN, xOpen, xRan, xOut>>

rvars == <<rPc, rAt, rStmt, rPrepares>>

\* What the scrape of one target leaves alone.
ovars == <<cvars, hvars, mvars, kvars, qvars, lvars, gvars, avars, xvars, rvars>>

\* What contextFor, the handler, the metric families and the construction
\* of a collector leave alone.
restC == <<tvars, hvars, mvars, kvars, qvars, lvars, gvars, avars, xvars, rvars>>
restH == <<tvars, cvars, mvars, kvars, qvars, lvars, gvars, avars, xvars, rvars>>
restM == <<tvars, cvars, hvars, kvars, qvars, lvars, gvars, avars, xvars, rvars>>
restK == <<tvars, cvars, hvars, mvars, qvars, lvars, gvars, avars, xvars, rvars>>
restQ == <<tvars, cvars, hvars, mvars, kvars, lvars, gvars, avars, xvars, rvars>>
restL == <<tvars, cvars, hvars, mvars, kvars, qvars, gvars, avars, xvars, rvars>>
restG == <<tvars, cvars, hvars, mvars, kvars, qvars, lvars, avars, xvars, rvars>>
restA == <<tvars, cvars, hvars, mvars, kvars, qvars, lvars, gvars, xvars, rvars>>
restX == <<tvars, cvars, hvars, mvars, kvars, qvars, lvars, gvars, avars, rvars>>
restR == <<tvars, cvars, hvars, mvars, kvars, qvars, lvars, gvars, avars, xvars>>

vars == <<tvars, ovars>>

(***************************************************************************)
(* Metrics.                                                                *)
(***************************************************************************)

\* A descriptor that drops the const labels.
NewAutomaticMetricDescNoLabels(name, constLabels) ==
    [name |-> name, constLabels |-> {}]

\* NewAutomaticMetricDesc: the descriptor of `up` and
\* `scrape_duration_seconds`, carrying the target's const labels.
NewAutomaticMetricDesc(name, constLabels) ==
    [name |-> name, constLabels |-> constLabels]

upDesc == NewAutomaticMetricDesc("up", ConstLabels)

scrapeDurationDesc == NewAutomaticMetricDesc("scrape_duration_seconds", ConstLabels)

\* A synthetic sample: NewMetric(desc, value).
NewMetric(desc, value) == [desc |-> desc, value |-> value]

\* NewInvalidMetric(context, err): an error travelling on the sample channel.
NewInvalidMetric(c, q, e) ==
    [kind |-> "invalid", coll |-> c, q |-> q, fam |-> "", col |-> "", row |-> 0, err |-> e]

\* One sample of family f for value column v of row r.
Sample(c, q, f, v, r) ==
    [kind |-> "sample", coll |-> c, q |-> q, fam |-> f, col |-> v, row |-> r, err |-> ""]

RECURSIVE FamilyCollect(_, _, _, _, _)
\* MetricFamily.Collect: one sample per value column, in declared order.
FamilyCollect(c, q, f, r, i) ==
    IF i > Len(FamilyValues(f)) THEN <<>>
    ELSE <<Sample(c, q, f, FamilyValues(f)[i], r)>> \o FamilyCollect(c, q, f, r, i + 1)

RECURSIVE RowSamples(_, _, _, _)
\* collector.Collect, the fan-out of one scanned row to the query's families.
RowSamples(c, q, r, j) ==
    IF j > Len(QueryFamilies(q)) THEN <<>>
    ELSE FamilyCollect(c, q, QueryFamilies(q)[j], r, 1) \o RowSamples(c, q, r, j + 1)

(***************************************************************************)
(* The driver adapter: OpenConnection and PingDB.                          *)
(***************************************************************************)

\* A connect that opens a handle on every call.
NeedsOpenAlways(h) == TRUE

\* connection.connect: "already connected" - a handle is opened only when
\* there is none.
NeedsOpen(h) == h = NoHandle

\* OpenConnection's select: what it can return, given the state of the
\* goroutine running sql.Open and the context.
OpenConnectionResults(task, done) ==
    (IF done THEN {"ctx"} ELSE {})
    \cup (IF task = "ok" THEN {"conn"} ELSE IF task = "err" THEN {"err"} ELSE {})

\* A select that returns nil whatever the ping returned.
PingDBResultsNil(task, done) ==
    (IF done THEN {"ctx"} ELSE {})
    \cup (IF task \in {"ok", "err"} THEN {"ok"} ELSE {})

\* PingDB's select: the context's error, or the ping's result.
PingDBResults(task, done) ==
    (IF done THEN {"ctx"} ELSE {})
    \cup (IF task \in {"ok", "err"} THEN {task} ELSE {})

\* A handle whose pool limit is never set.
OpenConnLimitUnset(maxConns) == 0

\* conn.SetMaxOpenConns(maxConns): the pool limit of the handle; a value
\* of 0 or less means no limit.
OpenConnLimit(maxConns) == maxConns

Busy == {c \in Collectors : rowsOpen[c]}

\* The pool hands out a connection only below the limit.
FreeConn == OpenConnLimit(MaxConns) <= 0 \/ Cardinality(Busy) < OpenConnLimit(MaxConns)

(***************************************************************************)
(* Target.Gather.                                                          *)
(***************************************************************************)

ctxErr == <<"target", "ctx">>

UpValue == IF synth = <<>> THEN -1 ELSE synth[1].value

\* A target that stays dead once a scrape found it DOWN.
DeadFlagSticky(prev) == prev = "down"

\* No "dead" flag is kept from one scrape to the next.
DeadFlag(prev) == FALSE

\* The two synthetic samples, emitted once the scrape's outcome is known.
SyntheticSamples(up) ==
    <<NewMetric(upDesc, up), NewMetric(scrapeDurationDesc, 0)>>

\* An error list returned as accumulated.
ReturnedErrorsNoCause(es, done) == es

\* The error list Gather returns: what was accumulated, plus the
\* cancellation cause when the context is done.
ReturnedErrors(es, done) == IF done THEN es \cup {ctxErr} ELSE es

\* Gather returns: up, scrape_duration_seconds and the error list.
Finalize(up, es) ==
    /\ pcG' = "done"
    /\ synth' = SyntheticSamples(up)
    /\ errs' = ReturnedErrors(es, ctxDone)

collvars == <<pc, qi, rowN, pending, cont, rowsOpen, runs, sent, ovars>>

\* A new Gather(ctx) on the idle target; it creates the handle if needed.
GatherStart ==
    /\ pcG \in {"idle", "done"}
    /\ ctxDone' = FALSE
    /\ early' = FALSE
    /\ prevUp' = IF pcG = "idle" THEN "none" ELSE IF UpValue = 1 THEN "up" ELSE "down"
    /\ hadHandle' = (handle # NoHandle)
    /\ pingTask' = "none"
    /\ pings' = 0
    /\ pc' = [c \in Collectors |-> "idle"]
    /\ qi' = [c \in Collectors |-> 1]
    /\ rowN' = [c \in Collectors |-> 0]
    /\ pending' = [c \in Collectors |-> <<>>]
    /\ cont' = [c \in Collectors |-> "none"]
    /\ rowsOpen' = [c \in Collectors |-> FALSE]
    /\ runs' = [q \in Queries |-> "no"]
    /\ sent' = [c \in Collectors |-> {}]
    /\ chan' = <<>>
    /\ chClosed' = FALSE
    /\ result' = {}
    /\ errs' = {}
    /\ synth' = <<>>
    /\ IF NeedsOpen(handle)
       THEN /\ pcG' = "open"
            /\ openTask' = "running"
            /\ opens' = 1
       ELSE /\ pcG' = "ping"
            /\ openTask' = "none"
            /\ opens' = 0
    /\ UNCHANGED <<handle, ovars>>

\* The scrape context is cancelled, or its deadline passes.
Cancel ==
    /\ pcG \notin {"idle", "done"}
    /\ ~ctxDone
    /\ ctxDone' = TRUE
    /\ early' = (pcG \in {"open", "ping", "pingWait"})
    /\ UNCHANGED <<pcG, handle, openTask, pingTask, opens, pings, chan,
                   chClosed, result, errs, synth, prevUp, hadHandle>>
    /\ UNCHANGED collvars

\* The goroutine of OpenConnection: sql.Open returns, the channel is closed.
OpenDriver ==
    /\ openTask = "running"
    /\ \E r \in {"ok", "err"} : openTask' = r
    /\ UNCHANGED <<pcG, ctxDone, handle, pingTask, opens, pings, chan,
                   chClosed, result, errs, synth, prevUp, hadHandle, early>>
    /\ UNCHANGED collvars

\* OpenConnection returns to Gather: a handle, the driver's error or the
\* context's error. Without a handle the target is DOWN for this scrape.
OpenConnectionReturn ==
    /\ pcG = "open"
    /\ \E r \in OpenConnectionResults(openTask, ctxDone) :
          IF r = "conn"
          THEN /\ handle' = Handle
               /\ pcG' = "ping"
               /\ UNCHANGED <<synth, errs>>
          ELSE /\ Finalize(0, errs \cup {IF r = "ctx" THEN ctxErr ELSE <<"target", "open">>})
               /\ UNCHANGED <<handle, ovars>>
    /\ UNCHANGED <<ctxDone, openTask, pingTask, opens, pings, chan,
                   chClosed, result, prevUp, hadHandle, early>>
    /\ UNCHANGED collvars

\* With a handle: DOWN when the context has expired, else one PingDB.
GatherPing ==
    /\ pcG = "ping"
    /\ IF ctxDone
       THEN /\ Finalize(0, errs \cup {ctxErr})
            /\ UNCHANGED <<pingTask, pings>>
       ELSE /\ pcG' = "pingWait"
            /\ pingTask' = "running"
            /\ pings' = pings + 1
            /\ UNCHANGED <<synth, errs>>
    /\ UNCHANGED <<ctxDone, handle, openTask, opens, chan, chClosed,
                   result, prevUp, hadHandle, early>>
    /\ UNCHANGED collvars

\* The goroutine of PingDB: PingContext returns and its result is buffered.
PingDriver ==
    /\ pingTask = "running"
    /\ \E r \in {"ok", "err"} : pingTask' = r
    /\ UNCHANGED <<pcG, ctxDone, handle, openTask, opens, pings, chan,
                   chClosed, result, errs, synth, prevUp, hadHandle, early>>
    /\ UNCHANGED collvars

\* PingDB returns to Gather. A live target fans out to its collectors; a
\* failed ping or an expired context makes it DOWN and skips them.
PingDBReturn ==
    /\ pcG = "pingWait"
    /\ \E r \in PingDBResults(pingTask, ctxDone) :
          IF r = "ok" /\ ~ctxDone /\ ~DeadFlag(prevUp)
          THEN /\ pcG' = "collect"
               /\ pc' = [c \in Collectors |-> "query"]
               /\ UNCHANGED <<synth, errs>>
          ELSE /\ Finalize(0, errs \cup {IF r = "err" THEN <<"target", "ping">> ELSE ctxErr})
               /\ UNCHANGED pc
    /\ UNCHANGED <<ctxDone, handle, openTask, pingTask, opens, pings,
                   chan, chClosed, result, prevUp, hadHandle, early>>
    /\ UNCHANGED <<qi, rowN, pending, cont, rowsOpen, runs, sent, ovars>>

(***************************************************************************)
(* collector.Collect and Query.Run, one instance per collector.            *)
(***************************************************************************)

Query(c) == CollQueries(c)[qi[c]]

\* A Collect that skips a failed query silently.
RunErrorMetricsNone(c, q) == <<>>

\* The metrics Collect sends when Query.Run fails, before `continue`.
RunErrorMetrics(c, q) == <<NewInvalidMetric(c, q, "query")>>

\* Collect goes on after its sends: with the rows of the current result
\* set, with the next query (the loop ends after the last), or it returns.
Continue(c, k) ==
    CASE k = "rows"  -> /\ pc' = [pc EXCEPT ![c] = "rows"]
                        /\ UNCHANGED qi
      [] k = "nextq" -> IF qi[c] < Len(CollQueries(c))
                        THEN /\ pc' = [pc EXCEPT ![c] = "query"]
                             /\ qi' = [qi EXCEPT ![c] = qi[c] + 1]
                        ELSE /\ pc' = [pc EXCEPT ![c] = "done"]
                             /\ UNCHANGED qi
      [] OTHER       -> /\ pc' = [pc EXCEPT ![c] = "done"]
                        /\ UNCHANGED qi

\* Collect has `items` to send on the channel and then continues at k.
Emit(c, items, k) ==
    IF items = <<>>
    THEN /\ Continue(c, k)
         /\ UNCHANGED <<pending, cont>>
    ELSE /\ pc' = [pc EXCEPT ![c] = "send"]
         /\ pending' = [pending EXCEPT ![c] = items]
         /\ cont' = [cont EXCEPT ![c] = k]
         /\ UNCHANGED qi

gvarsC == <<pcG, ctxDone, handle, openTask, pingTask, opens, pings,
            chClosed, result, errs, synth, prevUp, hadHandle, early, ovars>>

\* One turn of the loop over the queries. A cancelled context yields one
\* invalid metric and ends Collect. Otherwise the query is run (Query.Run);
\* a failed Run is reported as an invalid metric and Collect continues with
\* the next query; a successful one holds a connection of the pool.
CollectQuery(c) ==
    /\ pc[c] = "query"
    /\ IF ctxDone
       THEN /\ Emit(c, <<NewInvalidMetric(c, Query(c), "ctx")>>, "return")
            /\ UNCHANGED <<rowN, rowsOpen, runs>>
       ELSE \E r \in {"fail", "ok"} :
               /\ r = "ok" => FreeConn
               /\ runs' = [runs EXCEPT ![Query(c)] = r]
               /\ IF r = "ok"
                  THEN /\ pc' = [pc EXCEPT ![c] = "rows"]
                       /\ rowsOpen' = [rowsOpen EXCEPT ![c] = TRUE]
                       /\ rowN' = [rowN EXCEPT ![c] = 0]
                       /\ UNCHANGED <<qi, pending, cont>>
                  ELSE /\ Emit(c, RunErrorMetrics(c, Query(c)), "nextq")
                       /\ UNCHANGED <<rowsOpen, rowN>>
    /\ UNCHANGED <<sent, chan>>
    /\ UNCHANGED gvarsC

\* rows.Next() and ScanRow: a scanned row fans out to the families; a row
\* that fails to scan yields one invalid metric. After the last row the
\* result set is closed and rows.Err() is reported if set.
CollectNext(c) ==
    /\ pc[c] = "rows"
    /\ \/ /\ rowN[c] < RowLimit(Query(c))
          /\ rowN' = [rowN EXCEPT ![c] = rowN[c] + 1]
          /\ \E ok \in BOOLEAN :
                Emit(c, IF ok THEN RowSamples(c, Query(c), rowN[c] + 1, 1)
                              ELSE <<NewInvalidMetric(c, Query(c), "scan")>>, "rows")
          /\ UNCHANGED rowsOpen
       \/ /\ rowsOpen' = [rowsOpen EXCEPT ![c] = FALSE]
          /\ \E ok \in BOOLEAN :
                Emit(c, IF ok THEN <<>> ELSE <<NewInvalidMetric(c, Query(c), "rows")>>, "nextq")
          /\ UNCHANGED rowN
    /\ UNCHANGED <<runs, sent, chan>>
    /\ UNCHANGED gvarsC

\* ch <- metric: blocks while the channel is full.
CollectSend(c) ==
    /\ pc[c] = "send"
    /\ Len(chan) < ChanCap
    /\ chan' = Append(chan, Head(pending[c]))
    /\ sent' = [sent EXCEPT ![c] = IF Head(pending[c]).kind = "sample"
                                   THEN sent[c] \cup {Head(pending[c])} ELSE sent[c]]
    /\ pending' = [pending EXCEPT ![c] = Tail(pending[c])]
    /\ IF Tail(pending[c]) = <<>>
       THEN /\ Continue(c, cont[c])
            /\ cont' = [cont EXCEPT ![c] = "none"]
       ELSE UNCHANGED <<pc, qi, cont>>
    /\ UNCHANGED <<rowN, rowsOpen, runs>>
    /\ UNCHANGED gvarsC

(***************************************************************************)
(* Target.Gather, the aggregation of the sample stream.                    *)
(***************************************************************************)

\* A closer that waits for one collector only.
AllCollectorsDoneAny == \E c \in Collectors : pc[c] = "done"

\* The channel is closed once every collector has returned (wg.Wait).
AllCollectorsDone == \A c \in Collectors : pc[c] = "done"

CloseChan ==
    /\ pcG \in {"collect", "drain"}
    /\ ~chClosed
    /\ AllCollectorsDone
    /\ chClosed' = TRUE
    /\ UNCHANGED <<pcG, ctxDone, handle, openTask, pingTask, opens, pings,
                   chan, result, errs, synth, prevUp, hadHandle, early>>
    /\ UNCHANGED collvars

\* The aggregator takes one metric off the channel: an invalid metric goes
\* to the error list, a sample into its metric family.
GatherRecv ==
    /\ pcG = "collect"
    /\ chan # <<>>
    /\ chan' = Tail(chan)
    /\ IF Head(chan).kind = "invalid"
       THEN /\ errs' = errs \cup {<<Head(chan).coll, Head(chan).err>>}
            /\ UNCHANGED result
       ELSE /\ result' = result \cup {Head(chan)}
            /\ UNCHANGED errs
    /\ UNCHANGED <<pcG, ctxDone, handle, openTask, pingTask, opens, pings,
                   chClosed, synth, prevUp, hadHandle, early>>
    /\ UNCHANGED collvars

\* An aggregator that returns on cancellation without draining.
AfterCancelReturn == "done"

\* Where the aggregator goes when it sees the context done: the rest of
\* the stream is drained and discarded.
AfterCancel == "drain"

\* The aggregator sees the context done: it records the cause and stops
\* aggregating.
GatherCancelled ==
    /\ pcG = "collect"
    /\ ctxDone
    /\ errs' = errs \cup {ctxErr}
    /\ IF AfterCancel = "drain"
       THEN /\ pcG' = "drain"
            /\ UNCHANGED synth
       ELSE /\ pcG' = "done"
            /\ synth' = SyntheticSamples(1)
    /\ UNCHANGED <<ctxDone, handle, openTask, pingTask, opens, pings,
                   chan, chClosed, result, prevUp, hadHandle, early>>
    /\ UNCHANGED collvars

\* The deferred cleanup: what is still streamed is taken off and dropped.
GatherDrain ==
    /\ pcG = "drain"
    /\ chan # <<>>
    /\ chan' = Tail(chan)
    /\ UNCHANGED <<pcG, ctxDone, handle, openTask, pingTask, opens, pings,
                   chClosed, result, errs, synth, prevUp, hadHandle, early>>
    /\ UNCHANGED collvars

\* The stream is closed and empty: up=1 and scrape_duration_seconds are
\* emitted and Gather returns.
GatherFinish ==
    /\ pcG \in {"collect", "drain"}
    /\ chClosed
    /\ chan = <<>>
    /\ Finalize(1, errs)
    /\ UNCHANGED <<ctxDone, handle, openTask, pingTask, opens, pings,
                   chan, chClosed, result, prevUp, hadHandle, early>>
    /\ UNCHANGED collvars

(***************************************************************************)
(* The specification of the scrapes of one target.                         *)
(***************************************************************************)

InitT ==
    /\ pcG = "idle"
    /\ ctxDone = FALSE
    /\ handle = NoHandle
    /\ openTask = "none"
    /\ pingTask = "none"
    /\ opens = 0
    /\ pings = 0
    /\ pc = [c \in Collectors |-> "idle"]
    /\ qi = [c \in Collectors |-> 1]
    /\ rowN = [c \in Collectors |-> 0]
    /\ pending = [c \in Collectors |-> <<>>]
    /\ cont = [c \in Collectors |-> "none"]
    /\ rowsOpen = [c \in Collectors |-> FALSE]
    /\ runs = [q \in Queries |-> "no"]
    /\ sent = [c \in Collectors |-> {}]
    /\ chan = <<>>
    /\ chClosed = FALSE
    /\ result = {}
    /\ errs = {}
    /\ synth = <<>>
    /\ prevUp = "none"
    /\ hadHandle = FALSE
    /\ early = FALSE

InitC0 ==
    /\ hdr = 0
    /\ off = 0
    /\ cfgT = 0
    /\ ctxPc = "in"
    /\ deadline = 0

NextT ==
    \/ GatherStart
    \/ Cancel
    \/ OpenDriver
    \/ OpenConnectionReturn
    \/ GatherPing
    \/ PingDriver
    \/ PingDBReturn
    \/ \E c \in Collectors : CollectQuery(c)
    \/ \E c \in Collectors : CollectNext(c)
    \/ \E c \in Collectors : CollectSend(c)
    \/ CloseChan
    \/ GatherRecv
    \/ GatherCancelled
    \/ GatherDrain
    \/ GatherFinish

InitH0 ==
    /\ hPc = "start"
    /\ tctx = [t \in {"t1", "t2"} |-> 0]
    /\ tres = [t \in {"t1", "t2"} |-> "none"]
    /\ status = 0

\* ScanRow has listed no column.
NoneListed == [blanks |-> 0, columns |-> {}]

InitM0 ==
    /\ families = <<>>
    /\ rowCols = {}
    /\ mPc = "in"
    /\ mOut = <<>>
    /\ mPanic = FALSE
    /\ mErr = NoneListed

InitK0 ==
    /\ kMetrics = <<>>
    /\ kPc = "config"
    /\ kQueries = <<>>
    /\ kErr = ""
    /\ kIdx = 1
    /\ kExec = <<>>

InitQ0 ==
    /\ qConn = NoHandle
    /\ qStmt = 0
    /\ qPrepares = 0
    /\ qHist = <<>>

\* No configuration file is being loaded.
NoConfig == [jobs |-> <<>>, collectors |-> <<>>]

InitL0 ==
    /\ doc = NoConfig
    /\ lPc = "file"
    /\ lCfg = NoConfig
    /\ lOut = NoConfig
    /\ lCfg2 = NoConfig
    /\ lNames = {}

InitG0 ==
    /\ srcs = <<>>
    /\ mgIdx = 1
    /\ mgMfs = <<>>
    /\ mgRet = "none"

InitA0 ==
    /\ aFn = "open"
    /\ aCtx = FALSE
    /\ aDrv = "running"
    /\ aHelper = "call"
    /\ aBuf = <<>>
    /\ aClosed = FALSE
    /\ aSel = "enter"
    /\ aRet = "none"
    /\ aFirst = "none"
    /\ aRace = FALSE

InitX0 ==
    /\ xCtx = FALSE
    /\ xPc = "idle"
    /\ xIdx = 1
    /\ xRowN = 0
    /\ xOpen = {}
    /\ xRan = <<>>
    /\ xOut = <<>>

InitR0 ==
    /\ rPc = [r \in {} |-> "idle"]
    /\ rAt = [r \in {} |-> 1]
    /\ rStmt = [n \in {} |-> 0]
    /\ rPrepares = [n \in {} |-> 0]

Init == InitT /\ InitC0 /\ InitH0 /\ InitM0 /\ InitK0 /\ InitQ0 /\ InitL0 /\ InitG0 /\ InitA0 /\ InitX0 /\ InitR0

Next == NextT

Spec == Init /\ [][Next]_vars

(***************************************************************************)
(* contextFor: the deadline of the scrape context, from the caller's       *)
(* timeout header, global.scrape_timeout_offset and global.scrape_timeout. *)
(* Durations are ticks; NoHeader stands for an absent or unparsable header *)
(* and a deadline of 0 for context.Background(), which has none.           *)
(***************************************************************************)
NoHeader == -1

\* "Subtract the timeout offset, unless the result would be negative or zero."
SubtractOffset(timeout, timeoutOffset) ==
    IF timeoutOffset > timeout THEN timeout ELSE timeout - timeoutOffset

\* A handler that prefers the configured scrape timeout whenever there is one.
ConfigTimeoutAlways(timeout, configTimeout) ==
    IF configTimeout > 0 THEN configTimeout ELSE timeout

\* "If the configured scrape timeout is more restrictive, use that instead."
ConfigTimeout(timeout, configTimeout) ==
    IF configTimeout > 0 /\ (timeout <= 0 \/ configTimeout < timeout)
    THEN configTimeout ELSE timeout

contextFor(h, o, c) ==
    LET timeout == ConfigTimeout(IF h = NoHeader THEN 0 ELSE SubtractOffset(h, o), c)
    IN IF timeout <= 0 THEN 0 ELSE timeout

InitCtx ==
    /\ hdr \in {NoHeader} \cup (0 .. MaxT)
    /\ off \in 0 .. MaxT
    /\ cfgT \in 0 .. MaxT
    /\ ctxPc = "in"
    /\ deadline = 0

ContextFor ==
    /\ ctxPc = "in"
    /\ ctxPc' = "out"
    /\ deadline' = contextFor(hdr, off, cfgT)
    /\ UNCHANGED <<hdr, off, cfgT>>

InitSpecCtx == InitT /\ InitCtx /\ InitH0 /\ InitM0 /\ InitK0 /\ InitQ0 /\ InitL0 /\ InitG0 /\ InitA0 /\ InitX0 /\ InitR0

NextCtx == ContextFor /\ UNCHANGED restC

SpecCtx == InitSpecCtx /\ [][NextCtx]_vars

(***************************************************************************)
(* The /metrics handler: ExporterHandlerFor derives the scrape context,    *)
(* the exporter gathers every target through a gathererAdapter, and the    *)
(* handler answers 500 when gathering failed and left no metric family.    *)
(***************************************************************************)
Targets == {"t1", "t2"}

\* context.Background(): a context without deadline.
Background == 0

\* exporter.Gather: the context the adapters of the targets are built with.
\* `ctx = context.Background()` replaces whatever context there was.
ExporterGatherCtx(handlerCtx) == Background

\* What Target.Gather returns: `up` and `scrape_duration_seconds` always,
\* the collectors' samples when the target is live.
TargetFamilies(t, r) ==
    {[name |-> "up", target |-> t, value |-> IF r = "up" THEN 1 ELSE 0],
     [name |-> "scrape_duration_seconds", target |-> t, value |-> 0]}
    \cup (IF r = "up" THEN {[name |-> "m1", target |-> t, value |-> 1]} ELSE {})

\* Target.Gather returns an error list when the target is DOWN.
TargetError(r) == r = "down"

\* gatherers.Gather(): the families of every gatherer, and an error when
\* one of them returned one.
GatherersGather(res) ==
    [mfs |-> UNION {TargetFamilies(t, res[t]) : t \in Targets},
     err |-> \E t \in Targets : TargetError(res[t])]

\* ExporterHandlerFor: "No metrics gathered" is the only way to a 500; the
\* samples of the model always encode.
ExporterHandlerStatus(mfs, err) == IF err /\ mfs = {} THEN 500 ELSE 200

\* exporter.Gather builds one adapter per target.
ExporterGather ==
    /\ ctxPc = "out"
    /\ hPc = "start"
    /\ hPc' = "gather"
    /\ tctx' = [t \in Targets |-> ExporterGatherCtx(deadline)]
    /\ UNCHANGED <<tres, status>>
    /\ UNCHANGED restH

\* gathererAdapter.Gather: target.Gather(ga.ctx) finds the target up or down.
AdapterGather(t) ==
    /\ hPc = "gather"
    /\ tres[t] = "none"
    /\ \E r \in {"up", "down"} : tres' = [tres EXCEPT ![t] = r]
    /\ UNCHANGED <<hPc, tctx, status>>
    /\ UNCHANGED restH

\* The handler writes the response.
HandlerRespond ==
    /\ hPc = "gather"
    /\ \A t \in Targets : tres[t] # "none"
    /\ hPc' = "done"
    /\ status' = ExporterHandlerStatus(GatherersGather(tres).mfs, GatherersGather(tres).err)
    /\ UNCHANGED <<tctx, tres>>
    /\ UNCHANGED restH

HandlerContextFor == ContextFor /\ UNCHANGED restC

InitHandler == InitT /\ InitCtx /\ InitH0 /\ InitM0 /\ InitK0 /\ InitQ0 /\ InitL0 /\ InitG0 /\ InitA0 /\ InitX0 /\ InitR0

NextHandler ==
    \/ HandlerContextFor
    \/ ExporterGather
    \/ \E t \in Targets : AdapterGather(t)
    \/ HandlerRespond

SpecHandler == InitHandler /\ [][NextHandler]_vars

(***************************************************************************)
(* Metric families: the label checks of MetricConfig.UnmarshalYAML,        *)
(* NewMetricFamily, NewQuery, Query.ScanRow, MetricFamily.Collect,         *)
(* NewMetric and makeLabelPairs, and the row loop of collector.Collect.    *)
(***************************************************************************)
MaxFamilies == 2     \* metric families populated by one query

KeyLabelChoices == {<<>>, <<"k">>, <<"job">>, <<"k", "k2">>, <<"k", "k">>}

ValueLabelChoices == {"", "kind", "k"}

ValuesChoices == {<<>>, <<"a">>, <<"a", "b">>, <<"b", "a">>}

AllColumns == {"k", "k2", "job", "a", "b"}

\* MetricConfig.UnmarshalYAML, the checks on labels and values: no key
\* label twice, the value label is no key label, at least one value, and a
\* value label with several values. What checkLabel returns for a key
\* label or the value label is dropped, so it rejects nothing.
MetricConfigAccepted(m) ==
    /\ \A i, j \in DOMAIN m.keyLabels : i # j => m.keyLabels[i] # m.keyLabels[j]
    /\ \A i \in DOMAIN m.keyLabels : m.valueLabel # m.keyLabels[i]
    /\ Len(m.values) # 0
    /\ Len(m.values) > 1 => m.valueLabel # ""

MetricConfigs ==
    {m \in [keyLabels : KeyLabelChoices, valueLabel : ValueLabelChoices,
            values : ValuesChoices] : MetricConfigAccepted(m)}

\* NewMetricFamily: labels are the key labels, then the value label if any.
Labels(m) == m.keyLabels \o (IF m.valueLabel # "" THEN <<m.valueLabel>> ELSE <<>>)

\* The const labels a target hands to its families, sorted by name.
ConstLabelPairs == <<<<"instance", "db1">>, <<"job", "j1">>>>

\* The content of the result row, per column.
RowValue(c) ==
    CASE c = "k" -> "vk" [] c = "k2" -> "vk2" [] c = "job" -> "vjob"
      [] c = "a" -> "va" [] OTHER -> "vb"

\* Label names in the order of string comparison.
LabelOrder == <<"instance", "job", "k", "k2", "kind">>

Rank(name) == CHOOSE i \in DOMAIN LabelOrder : LabelOrder[i] = name

\* labelPairSorter.Less
Less(p, q) == Rank(p[1]) < Rank(q[1])

RECURSIVE Insert(_, _)
Insert(p, s) ==
    IF Len(s) = 0 THEN <<p>>
    ELSE IF Less(p, Head(s)) THEN <<p>> \o s
    ELSE <<Head(s)>> \o Insert(p, Tail(s))

RECURSIVE SortPairs(_)
\* sort.Sort(labelPairSorter(labelPairs))
SortPairs(s) ==
    IF Len(s) = 0 THEN <<>>
    ELSE Insert(s[Len(s)], SortPairs(SubSeq(s, 1, Len(s) - 1)))

\* makeLabelPairs: the labels with their values, then the const labels,
\* sorted by name.
makeLabelPairs(labels, labelValues, constLabels) ==
    IF Len(labels) + Len(constLabels) = 0 THEN <<>>
    ELSE IF Len(labels) = 0 THEN constLabels
    ELSE SortPairs([i \in 1 .. Len(labels) |-> <<labels[i], labelValues[i]>>]
                   \o constLabels)

\* The constMetric NewMetric returns for value column v of family f.
ConstMetric(f, m, v, value, labelValues) ==
    [kind |-> "sample", fam |-> f, col |-> v, val |-> value,
     labelPairs |-> makeLabelPairs(Labels(m), labelValues, ConstLabelPairs)]

\* The invalid metric collector.Collect sends for a row that does not scan.
InvalidRow ==
    [kind |-> "invalid", fam |-> 0, col |-> "", val |-> "", labelPairs |-> <<>>]

Panicked(out) == [out |-> out, panic |-> TRUE]

RECURSIVE CollectValues(_, _, _, _, _)
\* MetricFamily.Collect, the loop over mf.config.Values: the value label
\* slot is the last element of labelValues; the type assertion on a column
\* the row does not have panics, and so does NewMetric when the number of
\* label values is not the number of labels.
CollectValues(f, m, row, labelValues, i) ==
    IF i > Len(m.values) THEN [out |-> <<>>, panic |-> FALSE]
    ELSE LET v == m.values[i]
             n == Len(labelValues)
         IN IF m.valueLabel # "" /\ n = 0 THEN Panicked(<<>>)
            ELSE LET lv == IF m.valueLabel # ""
                           THEN [labelValues EXCEPT ![n] = v] ELSE labelValues
                 IN IF v \notin DOMAIN row THEN Panicked(<<>>)
                    ELSE IF Len(Labels(m)) # Len(lv) THEN Panicked(<<>>)
                    ELSE LET rest == CollectValues(f, m, row, lv, i + 1)
                         IN [out |-> <<ConstMetric(f, m, v, row[v], lv)>> \o rest.out,
                             panic |-> rest.panic]

KeyLabelValues(m, row) == [i \in 1 .. Len(m.keyLabels) |-> row[m.keyLabels[i]]]

\* MetricFamily.Collect: labelValues is made with one slot per label, the
\* key label slots are filled from the row.
MetricFamilyCollect(f, m, row) ==
    IF \E i \in DOMAIN m.keyLabels : m.keyLabels[i] \notin DOMAIN row
    THEN Panicked(<<>>)
    ELSE CollectValues(f, m, row,
                       KeyLabelValues(m, row) \o (IF m.valueLabel # "" THEN <<"">> ELSE <<>>), 1)

\* MetricFamily.Collect of metric.go, the copy that takes user labels:
\* labelValues is made empty and the key label values are appended to it.
MetricFamilyCollectUserLabels(f, m, row) ==
    IF \E i \in DOMAIN m.keyLabels : m.keyLabels[i] \notin DOMAIN row
    THEN Panicked(<<>>)
    ELSE CollectValues(f, m, row, KeyLabelValues(m, row), 1)

(***************************************************************************)
(* Query: NewQuery with setColumnType, and ScanRow.                        *)
(***************************************************************************)
columnTypeKey == 1

columnTypeValue == 2

NoColumns == [c \in {} |-> 0]

\* A setColumnType that lets the last use of a column decide its type.
setColumnTypeLastWins(columnName, ctype, columnTypes) ==
    [err |-> "",
     columnTypes |-> [c \in DOMAIN columnTypes \cup {columnName} |->
                         IF c = columnName THEN ctype ELSE columnTypes[c]]]

\* setColumnType: the type is stored for a new column; a column already
\* there with the other type is an error naming the column.
setColumnType(columnName, ctype, columnTypes) ==
    IF columnName \in DOMAIN columnTypes
    THEN [err |-> IF columnTypes[columnName] # ctype THEN columnName ELSE "",
          columnTypes |-> columnTypes]
    ELSE [err |-> "",
          columnTypes |-> [c \in DOMAIN columnTypes \cup {columnName} |->
                              IF c = columnName THEN ctype ELSE columnTypes[c]]]

\* The calls of setColumnType NewQuery makes for one family: its key
\* labels, then its values.
FamilyUses(m) ==
    [i \in 1 .. Len(m.keyLabels) |-> <<m.keyLabels[i], columnTypeKey>>]
    \o [i \in 1 .. Len(m.values) |-> <<m.values[i], columnTypeValue>>]

RECURSIVE ColumnUses(_, _)
ColumnUses(mfs, j) ==
    IF j > Len(mfs) THEN <<>> ELSE FamilyUses(mfs[j]) \o ColumnUses(mfs, j + 1)

RECURSIVE SetColumnTypes(_, _, _)
\* The loops of NewQuery: it returns at the first error.
SetColumnTypes(uses, i, columnTypes) ==
    IF i > Len(uses) THEN [err |-> "", columnTypes |-> columnTypes]
    ELSE LET r == setColumnType(uses[i][1], uses[i][2], columnTypes)
         IN IF r.err # "" THEN [err |-> r.err, columnTypes |-> NoColumns]
            ELSE SetColumnTypes(uses, i + 1, r.columnTypes)

\* NewQuery(qc, metricFamilies...): an error, or the query's column types.
NewQuery(mfs) == SetColumnTypes(ColumnUses(mfs, 1), 1, NoColumns)

\* ScanRow: every column of the column-type map must be among the result
\* set's columns; the row it returns holds exactly the mapped columns.
ScanRowMissing(columnTypes, columns) == DOMAIN columnTypes \ columns

ScanRow(columnTypes) == [c \in DOMAIN columnTypes |-> RowValue(c)]

\* ScanRow, `missing`: made with len(q.columnTypes)-len(have) empty
\* strings, then every column of the column-type map is appended to it,
\* in the order of the map, which is not kept here.
ScanRowMissingList(columnTypes, columns) ==
    LET have == DOMAIN columnTypes \cap columns
    IN [blanks |-> Cardinality(DOMAIN columnTypes) - Cardinality(have),
        columns |-> DOMAIN columnTypes]

\* A fan-out that stops after the first family.
FanOutFirst(mfs, row, j) == MetricFamilyCollect(1, mfs[1], row)

RECURSIVE FanOut(_, _, _)
\* collector.Collect, `for _, mf := range q.metricFamilies`.
FanOut(mfs, row, j) ==
    IF j > Len(mfs) THEN [out |-> <<>>, panic |-> FALSE]
    ELSE LET r == MetricFamilyCollect(j, mfs[j], row)
         IN IF r.panic THEN r
            ELSE LET rest == FanOut(mfs, row, j + 1)
                 IN [out |-> r.out \o rest.out, panic |-> rest.panic]

\* collector.Collect, one turn of `for rows.Next()`: the row is scanned
\* and fanned out, or one invalid metric is sent for it.
CollectRow ==
    /\ mPc = "in"
    /\ NewQuery(families).err = ""
    /\ \E scanned \in BOOLEAN :
          LET columnTypes == NewQuery(families).columnTypes
              complete == ScanRowMissing(columnTypes, rowCols) = {}
              r == FanOut(families, ScanRow(columnTypes), 1)
          IN IF complete /\ scanned
             THEN /\ mPc' = "collected" /\ mOut' = r.out /\ mPanic' = r.panic
                  /\ mErr' = NoneListed
             ELSE /\ mPc' = "scanerr" /\ mOut' = <<InvalidRow>>
                  /\ mPanic' = FALSE
                  /\ mErr' = IF complete THEN NoneListed
                             ELSE ScanRowMissingList(columnTypes, rowCols)
    /\ UNCHANGED <<families, rowCols>>
    /\ UNCHANGED restM

\* The record a caller of Collect holds: the columns of rowCols.
Record == [c \in rowCols |-> RowValue(c)]

\* MetricFamily.Collect(row, ch) on the first family, with that record.
CollectRecord ==
    /\ mPc = "in"
    /\ LET r == MetricFamilyCollect(1, families[1], Record)
       IN mPc' = "direct" /\ mOut' = r.out /\ mPanic' = r.panic
    /\ UNCHANGED <<families, rowCols, mErr>>
    /\ UNCHANGED restM

\* The same call on the Collect of metric.go.
CollectRecordUserLabels ==
    /\ mPc = "in"
    /\ LET r == MetricFamilyCollectUserLabels(1, families[1], Record)
       IN mPc' = "directUL" /\ mOut' = r.out /\ mPanic' = r.panic
    /\ UNCHANGED <<families, rowCols, mErr>>
    /\ UNCHANGED restM

FamilyLists ==
    UNION {[1 .. n -> MetricConfigs] : n \in 1 .. MaxFamilies}

InitMetric ==
    /\ families \in FamilyLists
    /\ rowCols \in {AllColumns} \cup {AllColumns \ {c} : c \in AllColumns}
    /\ mPc = "in"
    /\ mOut = <<>>
    /\ mPanic = FALSE
    /\ mErr = NoneListed

InitSpecMetric == InitT /\ InitC0 /\ InitH0 /\ InitMetric /\ InitK0 /\ InitQ0 /\ InitL0 /\ InitG0 /\ InitA0 /\ InitX0 /\ InitR0

NextMetric ==
    \/ CollectRow
    \/ CollectRecord
    \/ CollectRecordUserLabels

SpecMetric == InitSpecMetric /\ [][NextMetric]_vars

(***************************************************************************)
(* The construction of a collector: CollectorConfig.UnmarshalYAML gives    *)
(* every metric its QueryConfig, NewCollector groups the metric families   *)
(* by QueryConfig and builds one Query per group, and Collect runs the     *)
(* queries one after the other.                                            *)
(***************************************************************************)

\* Where a metric takes its SQL from: `query_ref: r1`, `query_ref: r2` or
\* the literal `query: s1`.
QuerySources == {<<"ref", "r1">>, <<"ref", "r2">>, <<"lit", "s1">>}

\* The named queries of the collector (CollectorConfig.Queries).
NamedQuery(name) == IF name = "r1" THEN "s1" ELSE "s2"

CollectorKeyChoices == {<<>>, <<"k">>, <<"a">>}

CollectorValuesChoices == {<<"a">>, <<"b">>, <<"a", "b">>}

CollectorMetricConfigs ==
    {mc \in [keyLabels : CollectorKeyChoices, valueLabel : {"kind"},
              values : CollectorValuesChoices, src : QuerySources] :
        MetricConfigAccepted(mc)}

\* A resolution that shares one QueryConfig among equal SQL texts.
QueryConfigByText(metrics, i) ==
    IF metrics[i].src[1] = "ref"
    THEN <<"text", NamedQuery(metrics[i].src[2]), 0>>
    ELSE <<"text", metrics[i].src[2], 0>>

\* CollectorConfig.UnmarshalYAML: metric.query is the named QueryConfig
\* for a query_ref, and a QueryConfig made for this metric alone for a
\* literal query. A QueryConfig is known by <<kind, name, metric index>>.
QueryConfigOf(metrics, i) ==
    IF metrics[i].src[1] = "ref"
    THEN <<"ref", metrics[i].src[2], 0>>
    ELSE <<"lit", "", i>>

\* QueryConfig.Query
QueryText(metrics, qc) ==
    IF qc[1] = "ref" THEN NamedQuery(qc[2])
    ELSE IF qc[1] = "text" THEN qc[2]
    ELSE metrics[qc[3]].src[2]

\* NewCollector, queryMFs[mc.query]: the metrics of a QueryConfig, in the
\* order of cc.Metrics.
QueryMFs(metrics, qc) ==
    LET Uses(i) == QueryConfigOf(metrics, i) = qc
    IN SelectSeq([i \in 1 .. Len(metrics) |-> i], Uses)

QueryConfigs(metrics) == {QueryConfigOf(metrics, i) : i \in 1 .. Len(metrics)}

\* The orders in which `range queryMFs` can visit the map.
MapOrders(keys) ==
    {s \in [1 .. Cardinality(keys) -> keys] :
        \A i, j \in DOMAIN s : i # j => s[i] # s[j]}

RECURSIVE InstantiateQueries(_, _, _)
\* NewCollector, "Instantiate queries": one NewQuery per QueryConfig; the
\* first error ends the construction.
InstantiateQueries(metrics, order, n) ==
    IF n > Len(order) THEN [err |-> "", queries |-> <<>>]
    ELSE LET mfs == QueryMFs(metrics, order[n])
             q == NewQuery([j \in 1 .. Len(mfs) |-> metrics[mfs[j]]])
         IN IF q.err # "" THEN [err |-> q.err, queries |-> <<>>]
            ELSE LET rest == InstantiateQueries(metrics, order, n + 1)
                 IN IF rest.err # "" THEN rest
                    ELSE [err |-> "",
                          queries |-> <<[qc |-> order[n], mfs |-> mfs,
                                         columnTypes |-> q.columnTypes]>> \o rest.queries]

\* NewCollector(cc, constLabels)
NewCollector ==
    /\ kPc = "config"
    /\ \E order \in MapOrders(QueryConfigs(kMetrics)) :
          LET c == InstantiateQueries(kMetrics, order, 1)
          IN /\ kPc' = IF c.err # "" THEN "failed" ELSE "built"
             /\ kErr' = c.err
             /\ kQueries' = c.queries
    /\ UNCHANGED <<kMetrics, kIdx, kExec>>
    /\ UNCHANGED restK

\* A scrape calls Collect on the collector.
CollectBegin ==
    /\ kPc \in {"built", "scraped"}
    /\ kPc' = "collect"
    /\ kIdx' = 1
    /\ kExec' = <<>>
    /\ UNCHANGED <<kMetrics, kQueries, kErr>>
    /\ UNCHANGED restK

\* Collect, one turn of `for _, q := range c.queries`: q.Run, and the rows
\* go to q.metricFamilies.
CollectRunQuery ==
    /\ kPc = "collect"
    /\ kIdx <= Len(kQueries)
    /\ kExec' = Append(kExec, kQueries[kIdx])
    /\ kIdx' = kIdx + 1
    /\ UNCHANGED <<kMetrics, kPc, kQueries, kErr>>
    /\ UNCHANGED restK

\* Collect returns.
CollectReturn ==
    /\ kPc = "collect"
    /\ kIdx > Len(kQueries)
    /\ kPc' = "scraped"
    /\ UNCHANGED <<kMetrics, kQueries, kErr, kIdx, kExec>>
    /\ UNCHANGED restK

InitCollector ==
    /\ kMetrics \in UNION {[1 .. n -> CollectorMetricConfigs] : n \in 1 .. MaxFamilies}
    /\ kPc = "config"
    /\ kQueries = <<>>
    /\ kErr = ""
    /\ kIdx = 1
    /\ kExec = <<>>

InitSpecCollector == InitT /\ InitC0 /\ InitH0 /\ InitM0 /\ InitCollector /\ InitQ0 /\ InitL0 /\ InitG0 /\ InitA0 /\ InitX0 /\ InitR0

NextCollector ==
    \/ NewCollector
    \/ CollectBegin
    \/ CollectRunQuery
    \/ CollectReturn

SpecCollector == InitSpecCollector /\ [][NextCollector]_vars

(***************************************************************************)
(* Query.Run: the statement is prepared on the first Run that gets one     *)
(* prepared, the Query is then pinned to that handle.                      *)
(***************************************************************************)
MaxRuns == 3         \* Run calls made on one Query

RunHandles == {"h", "h2"}

\* A Run that takes any handle.
RunPanicsNever(conn, handleArg) == FALSE

\* "Expecting to always run on the same database handle"
RunPanics(conn, handleArg) == conn # NoHandle /\ conn # handleArg

\* A failed PrepareContext that leaves the Query pinned to the handle.
ConnAfterPrepareErrorPinned(conn, handleArg) == handleArg

\* q.conn after a failed PrepareContext: the early return assigns nothing.
ConnAfterPrepareError(conn, handleArg) == conn

\* Query.Run(ctx, conn): panics on another handle than the pinned one;
\* prepares the statement if there is none, returning the error of a
\* failed PrepareContext; runs QueryContext on the statement.
Run(handleArg, prepareOk, queryOk) ==
    /\ Len(qHist) < MaxRuns
    /\ IF RunPanics(qConn, handleArg)
       THEN /\ qHist' = Append(qHist, [conn |-> handleArg, out |-> "panic",
                                       prepared |-> FALSE, stmt |-> 0])
            /\ UNCHANGED <<qConn, qStmt, qPrepares>>
       ELSE IF qStmt = 0 /\ ~prepareOk
       THEN /\ qHist' = Append(qHist, [conn |-> handleArg, out |-> "prepareErr",
                                       prepared |-> FALSE, stmt |-> 0])
            /\ qConn' = ConnAfterPrepareError(qConn, handleArg)
            /\ UNCHANGED <<qStmt, qPrepares>>
       ELSE /\ qConn' = IF qStmt = 0 THEN handleArg ELSE qConn
            /\ qStmt' = IF qStmt = 0 THEN qPrepares + 1 ELSE qStmt
            /\ qPrepares' = IF qStmt = 0 THEN qPrepares + 1 ELSE qPrepares
            /\ qHist' = Append(qHist, [conn |-> handleArg,
                                       out |-> IF queryOk THEN "rows" ELSE "queryErr",
                                       prepared |-> (qStmt = 0), stmt |-> qStmt'])
    /\ UNCHANGED restQ

NextRun ==
    \E handleArg \in RunHandles, prepareOk \in BOOLEAN, queryOk \in BOOLEAN :
        Run(handleArg, prepareOk, queryOk)

InitSpecRun == InitT /\ InitC0 /\ InitH0 /\ InitM0 /\ InitK0 /\ InitQ0 /\ InitL0 /\ InitG0 /\ InitA0 /\ InitX0 /\ InitR0

SpecRun == InitSpecRun /\ [][NextRun]_vars

(***************************************************************************)
(* Loading the configuration (target.go): the UnmarshalYAML checks of      *)
(* every level, the rendering of Config.YAML, and what NewExporter builds  *)
(* from the loaded Config. A document is the parsed YAML: jobs with a      *)
(* name, collector names and static configs (targets and labels as sets of *)
(* <<key, value>> pairs with distinct keys), collectors with a name and    *)
(* metrics. The documents all carry type, help and a literal query.        *)
(***************************************************************************)
MaxJobs == 2

\* metric_name values, character by character.
MetricNameChoices == {<<"m", "1">>, <<"m", "-", "1">>}

MetricShapes ==
    { [keyLabels |-> <<"k">>, valueLabel |-> "", values |-> <<"a">>],
      [keyLabels |-> <<"job">>, valueLabel |-> "", values |-> <<"a">>],
      [keyLabels |-> <<"k">>, valueLabel |-> "instance", values |-> <<"a", "b">>],
      [keyLabels |-> <<"k">>, valueLabel |-> "", values |-> <<"a", "b">>] }

MetricDoc(n, s) ==
    [name |-> n, keyLabels |-> s.keyLabels, valueLabel |-> s.valueLabel,
     values |-> s.values]

MetricDocs == {MetricDoc(n, s) : n \in MetricNameChoices, s \in MetricShapes}

PlainMetric ==
    [name |-> <<"m", "1">>, keyLabels |-> <<"k">>, valueLabel |-> "",
     values |-> <<"a">>]

CollectorDoc(n, m) == [name |-> n, metrics |-> <<m>>]

CollectorLists ==
    {<<CollectorDoc("c1", m)>> : m \in MetricDocs}
    \cup {<<CollectorDoc("c1", PlainMetric), CollectorDoc("c2", PlainMetric)>>,
          <<CollectorDoc("c1", PlainMetric), CollectorDoc("c1", PlainMetric)>>}

TargetChoices == {{}, {<<"t1", "d1">>}, {<<"t1", "d1">>, <<"t2", "d2">>}}

LabelChoices == {{}, {<<"k", "v">>}, {<<"job", "x">>}}

StaticLists ==
    {<<>>} \cup {<<[targets |-> t, labels |-> l]>> :
                    t \in TargetChoices, l \in LabelChoices}
           \cup {<<[targets |-> {<<"t1", "d1">>}, labels |-> {}],
                   [targets |-> {<<"t1", "d3">>}, labels |-> {<<"k", "v">>}]>>}

JobChoices ==
    {[name |-> n[1], collectors |-> n[2], static |-> s] :
        n \in {<<"j1", <<"c1">>>>, <<"j2", <<"c2", "c1">>>>, <<"j1", <<>>>>},
        s \in StaticLists}

\* The jobs a document has after its first one.
MoreJobs ==
    {[name |-> n, collectors |-> <<"c1">>,
      static |-> <<[targets |-> {<<"t1", "d1">>}, labels |-> {}]>>] :
        n \in {"j1", "j2"}}

JobLists ==
    {<<>>} \cup
    UNION {{<<j>> \o more : j \in JobChoices, more \in [1 .. n -> MoreJobs]} :
              n \in 0 .. MaxJobs - 1}

Documents == [jobs : JobLists, collectors : CollectorLists]

\* The first error of a list of results, "" when there is none.
FirstError(errors) ==
    IF \A i \in DOMAIN errors : errors[i] = "" THEN ""
    ELSE errors[CHOOSE i \in DOMAIN errors :
                    errors[i] # "" /\ \A k \in 1 .. i - 1 : errors[k] = ""]

\* checkLabel(label, ctx...)
checkLabel(label) ==
    IF label = "" THEN "empty label"
    ELSE IF label \in {"job", "instance"} THEN "reserved label"
    ELSE ""

\* MetricConfig.UnmarshalYAML: the name is required, then the checks on
\* labels and values. checkLabel is called for each key label and for the
\* value label of a metric with several values; the error it returns is
\* not looked at.
MetricConfigError(m) ==
    IF m.name = <<>> THEN "missing name"
    ELSE IF ~MetricConfigAccepted(m) THEN "labels or values"
    ELSE ""

\* CollectorConfig.UnmarshalYAML: the metrics are decoded first.
CollectorConfigError(c) ==
    LET inner == FirstError([i \in DOMAIN c.metrics |-> MetricConfigError(c.metrics[i])])
    IN IF inner # "" THEN inner
       ELSE IF Len(c.metrics) = 0 THEN "no metrics"
       ELSE ""

\* StaticConfig.UnmarshalYAML: no empty target name, no empty or repeated
\* data source name. The labels are not looked at.
StaticConfigError(s) ==
    IF \E t \in s.targets : t[1] = "" THEN "empty target name"
    ELSE IF \E t \in s.targets : t[2] = "" THEN "empty data source name"
    ELSE IF \E t, u \in s.targets : t # u /\ t[2] = u[2]
         THEN "duplicate data source name"
    ELSE ""

\* JobConfig.UnmarshalYAML: the static configs are decoded first; then
\* the name, at least one collector name, no collector name twice, at
\* least one static config.
JobConfigError(j) ==
    LET inner == FirstError([i \in DOMAIN j.static |-> StaticConfigError(j.static[i])])
    IN IF inner # "" THEN inner
       ELSE IF j.name = "" THEN "missing name"
       ELSE IF Len(j.collectors) = 0 THEN "no collectors"
       ELSE IF \E a, b \in DOMAIN j.collectors : a # b /\ j.collectors[a] = j.collectors[b]
            THEN "duplicate collector reference"
       ELSE IF Len(j.static) = 0 THEN "no targets"
       ELSE ""

\* Config.UnmarshalYAML, `colls`: the collector of each name.
CollectorNamed(d, cname) ==
    IF \E i \in DOMAIN d.collectors : d.collectors[i].name = cname
    THEN CHOOSE i \in DOMAIN d.collectors : d.collectors[i].name = cname
    ELSE 0

\* Config.UnmarshalYAML: jobs and collectors are decoded first; then at
\* least one job, no collector name twice, every collector name of a job
\* is the name of a collector. Job names are not compared.
ConfigError(d) ==
    LET inJobs == FirstError([i \in DOMAIN d.jobs |-> JobConfigError(d.jobs[i])])
        inColls == FirstError([i \in DOMAIN d.collectors |->
                                  CollectorConfigError(d.collectors[i])])
    IN IF inJobs # "" THEN inJobs
       ELSE IF inColls # "" THEN inColls
       ELSE IF Len(d.jobs) = 0 THEN "no jobs"
       ELSE IF \E a, b \in DOMAIN d.collectors :
                   a # b /\ d.collectors[a].name = d.collectors[b].name
            THEN "duplicate collector name"
       ELSE IF \E i \in DOMAIN d.jobs : \E n \in DOMAIN d.jobs[i].collectors :
                   CollectorNamed(d, d.jobs[i].collectors[n]) = 0
            THEN "unknown collector"
       ELSE ""

\* The Config a document is loaded into: each job gets its resolved
\* collector references, as positions in Config.Collectors.
LoadedConfig(d) ==
    [jobs |-> [i \in DOMAIN d.jobs |->
                  [name |-> d.jobs[i].name,
                   collectors |-> d.jobs[i].collectors,
                   static |-> d.jobs[i].static,
                   resolved |-> [n \in DOMAIN d.jobs[i].collectors |->
                                    CollectorNamed(d, d.jobs[i].collectors[n])]]],
     collectors |-> d.collectors]

\* StaticConfig.MarshalYAML: the labels as they are, every data source
\* name replaced.
StaticConfigMarshalYAML(s) ==
    [targets |-> {<<t[1], "<secret>">> : t \in s.targets}, labels |-> s.labels]

\* Config.YAML: the exported fields; the resolved references of a job are
\* not among them.
YAML(c) ==
    [jobs |-> [i \in DOMAIN c.jobs |->
                  [name |-> c.jobs[i].name,
                   collectors |-> c.jobs[i].collectors,
                   static |-> [n \in DOMAIN c.jobs[i].static |->
                                  StaticConfigMarshalYAML(c.jobs[i].static[n])]]],
     collectors |-> c.collectors]

\* NewJob: for each target the const labels are job and instance, then
\* the static config's labels; a label that is already there is an error.
NewJobError(j) ==
    IF \E n \in DOMAIN j.static :
          /\ j.static[n].targets # {}
          /\ \E l \in j.static[n].labels : l[1] \in {"job", "instance"}
    THEN "duplicate label"
    ELSE ""

\* NewJob, the two loops: one Target per target of each static config of
\* each job, here as <<job position, static config position, target name>>.
TargetsBuilt(c) ==
    UNION {UNION {{<<i, n, t[1]>> : t \in c.jobs[i].static[n].targets} :
                     n \in DOMAIN c.jobs[i].static} :
              i \in DOMAIN c.jobs}

\* The const labels job and instance NewJob gives a Target.
TargetIdentity(c, b) == <<c.jobs[b[1]].name, b[3]>>

\* MetricFamily.Name(): the name of the metric config.
MetricFamilyName(m) == m.name

\* The characters MetricNameRE leaves in a name.
NameCharacters ==
    {"a", "b", "l", "m", "n", "q", "s", "0", "1", "_", ":"}

\* Job.Init (job.go): "sql_" is put before the name and every run of
\* characters outside [a-zA-Z0-9_:] is removed.
JobInitName(name) ==
    SelectSeq(<<"s", "q", "l", "_">> \o name, LAMBDA ch : ch \in NameCharacters)

\* The metric configs of all collectors of a Config.
ConfigMetrics(c) ==
    UNION {{c.collectors[i].metrics[m] : m \in DOMAIN c.collectors[i].metrics} :
              i \in DOMAIN c.collectors}

\* LoadConfig
LoadConfig ==
    /\ lPc = "file"
    /\ IF ConfigError(doc) = ""
       THEN lPc' = "loaded" /\ lCfg' = LoadedConfig(doc)
       ELSE lPc' = "rejected" /\ lCfg' = lCfg
    /\ UNCHANGED <<doc, lOut, lCfg2, lNames>>
    /\ UNCHANGED restL

\* NewExporter, the loop over config.Jobs: the first NewJob error ends it.
NewJobs ==
    /\ lPc = "loaded"
    /\ lPc' = IF FirstError([i \in DOMAIN lCfg.jobs |-> NewJobError(lCfg.jobs[i])]) = ""
              THEN "jobs" ELSE "nojobs"
    /\ UNCHANGED <<doc, lCfg, lOut, lCfg2, lNames>>
    /\ UNCHANGED restL

\* The metric families of the jobs' collectors, with the names they are
\* exported under.
NewMetricFamilies ==
    /\ lPc = "jobs"
    /\ lPc' = "families"
    /\ lNames' = {<<m.name, MetricFamilyName(m)>> : m \in ConfigMetrics(lCfg)}
    /\ UNCHANGED <<doc, lCfg, lOut, lCfg2>>
    /\ UNCHANGED restL

\* Job.Init of job.go on the same names.
JobInit ==
    /\ lPc = "jobs"
    /\ lPc' = "descs"
    /\ lNames' = {<<m.name, JobInitName(m.name)>> : m \in ConfigMetrics(lCfg)}
    /\ UNCHANGED <<doc, lCfg, lOut, lCfg2>>
    /\ UNCHANGED restL

\* Config.YAML on the loaded Config.
RenderYAML ==
    /\ lPc = "loaded"
    /\ lPc' = "rendered"
    /\ lOut' = YAML(lCfg)
    /\ UNCHANGED <<doc, lCfg, lCfg2, lNames>>
    /\ UNCHANGED restL

\* LoadConfig on the rendering.
LoadRendered ==
    /\ lPc = "rendered"
    /\ IF ConfigError(lOut) = ""
       THEN lPc' = "reloaded" /\ lCfg2' = LoadedConfig(lOut)
       ELSE lPc' = "unloadable" /\ lCfg2' = lCfg2
    /\ UNCHANGED <<doc, lCfg, lOut, lNames>>
    /\ UNCHANGED restL

InitConfig ==
    /\ doc \in Documents
    /\ lPc = "file"
    /\ lCfg = NoConfig
    /\ lOut = NoConfig
    /\ lCfg2 = NoConfig
    /\ lNames = {}

InitSpecConfig == InitT /\ InitC0 /\ InitH0 /\ InitM0 /\ InitK0 /\ InitQ0 /\ InitConfig /\ InitG0 /\ InitA0 /\ InitX0 /\ InitR0

NextConfig ==
    \/ LoadConfig
    \/ NewJobs
    \/ NewMetricFamilies
    \/ JobInit
    \/ RenderYAML
    \/ LoadRendered

SpecConfig == InitSpecConfig /\ [][NextConfig]_vars

(***************************************************************************)
(* MergingGatherer.Gather (exporter.go): the families of the gatherers are *)
(* merged one gatherer after the other. A family is a name, a help text, a *)
(* type and its samples; a sample is written as the number of the gatherer *)
(* it comes from.                                                          *)
(***************************************************************************)
MaxSources == 2

\* The family names, in the order of strings.Compare.
FamilyNameOrder == <<"a", "b">>

NameIndex(n) == CHOOSE i \in DOMAIN FamilyNameOrder : FamilyNameOrder[i] = n

\* strings.Compare
Compare(x, y) ==
    IF NameIndex(x) < NameIndex(y) THEN -1
    ELSE IF NameIndex(x) = NameIndex(y) THEN 0
    ELSE 1

FamilyKinds == {<<"h1", "gauge">>, <<"h2", "counter">>}

Family(n, k, g) == [name |-> n, help |-> k[1], type |-> k[2], metric |-> <<g>>]

\* What gatherer g can return: families of distinct names in some order,
\* or nothing and an error.
SourceOutputs(g) ==
    {[mfs |-> <<>>, err |-> e] : e \in BOOLEAN}
    \cup {[mfs |-> <<Family(n, k, g)>>, err |-> FALSE] :
              n \in {"a", "b"}, k \in FamilyKinds}
    \cup {[mfs |-> <<Family(n[1], k1, g), Family(n[2], k2, g)>>, err |-> FALSE] :
              n \in {<<"a", "b">>, <<"b", "a">>}, k1 \in FamilyKinds, k2 \in FamilyKinds}

SourceLists ==
    UNION {{s \in [1 .. n -> UNION {SourceOutputs(g) : g \in 1 .. n}] :
               \A g \in 1 .. n : s[g] \in SourceOutputs(g)} : n \in 1 .. MaxSources}

\* A merge of two families of one name that keeps the second one's help
\* and type.
MergeSameNameSecond(mf1, mf2) == [mf2 EXCEPT !.metric = mf1.metric \o mf2.metric]

\* case 0: `mf := *mf1; mf.Metric = append(mf.Metric, mf2.Metric...)`.
MergeSameName(mf1, mf2) == [mf1 EXCEPT !.metric = mf1.metric \o mf2.metric]

RECURSIVE MergeFrom(_, _, _, _)
\* The loops over i1 and i2: while both lists have families the smaller
\* name goes first, then what is left of either list is appended.
MergeFrom(mfs1, mfs2, i1, i2) ==
    IF i1 > Len(mfs1) THEN SubSeq(mfs2, i2, Len(mfs2))
    ELSE IF i2 > Len(mfs2) THEN SubSeq(mfs1, i1, Len(mfs1))
    ELSE LET c == Compare(mfs1[i1].name, mfs2[i2].name)
         IN IF c = -1 THEN <<mfs1[i1]>> \o MergeFrom(mfs1, mfs2, i1 + 1, i2)
            ELSE IF c = 0
                 THEN <<MergeSameName(mfs1[i1], mfs2[i2])>>
                      \o MergeFrom(mfs1, mfs2, i1 + 1, i2 + 1)
            ELSE <<mfs2[i2]>> \o MergeFrom(mfs1, mfs2, i1, i2 + 1)

\* One turn of `for _, g := range mg.gatherers`: an error of the gatherer
\* is logged, its families are merged into mfs.
GatherSource ==
    /\ mgRet = "none"
    /\ mgIdx <= Len(srcs)
    /\ mgMfs' = MergeFrom(mgMfs, srcs[mgIdx].mfs, 1, 1)
    /\ mgIdx' = mgIdx + 1
    /\ UNCHANGED <<srcs, mgRet>>
    /\ UNCHANGED restG

\* `return mfs, nil`
GatherReturn ==
    /\ mgRet = "none"
    /\ mgIdx > Len(srcs)
    /\ mgRet' = "nil"
    /\ UNCHANGED <<srcs, mgIdx, mgMfs>>
    /\ UNCHANGED restG

InitMerge ==
    /\ srcs \in SourceLists
    /\ mgIdx = 1
    /\ mgMfs = <<>>
    /\ mgRet = "none"

InitSpecMerge == InitT /\ InitC0 /\ InitH0 /\ InitM0 /\ InitK0 /\ InitQ0 /\ InitL0 /\ InitMerge /\ InitA0 /\ InitX0 /\ InitR0

NextMerge ==
    \/ GatherSource
    \/ GatherReturn

SpecMerge == InitSpecMerge /\ [][NextMerge]_vars

(***************************************************************************)
(* OpenConnection and PingDB (sql.go): the driver call runs in a helper    *)
(* goroutine that signals on ch; the caller selects on ctx.Done() and ch.  *)
(* The driver call counts as complete once the helper has signalled it.    *)
(***************************************************************************)

\* A ch without a buffer in both functions.
ChanCapUnbuffered(fn) == 0

\* `make(chan error)` in OpenConnection, `make(chan error, 1)` in PingDB.
ChanCapOf(fn) == IF fn = "ping" THEN 1 ELSE 0

\* An OpenConnection that does not look at err.
OpenResultIgnoresErr(drv) == "conn"

\* OpenConnection, `case <-ch`: err if it is not nil, else the handle.
OpenResult(drv) == IF drv = "err" THEN "err" ELSE "conn"

\* A PingDB that returns nil whatever it received.
PingResultNil(buf) == "ok"

\* PingDB, `case err := <-ch`: the value received.
PingResult(buf) == buf[1]

\* The cases of the select that can proceed.
ReadyCases ==
    (IF aCtx THEN {"ctx"} ELSE {})
    \cup (IF aClosed \/ aBuf # <<>> THEN {"ch"} ELSE {})

\* The context is cancelled or its deadline passes; a caller parked in
\* the select is woken on the Done case.
AdapterCancel ==
    /\ ~aCtx
    /\ aCtx' = TRUE
    /\ aFirst' = IF aFirst = "none" THEN "ctx" ELSE aFirst
    /\ aSel' = IF aSel = "parked" THEN "ctx" ELSE aSel
    /\ UNCHANGED <<aFn, aDrv, aHelper, aBuf, aClosed, aRet, aRace>>
    /\ UNCHANGED restA

\* sql.Open or conn.PingContext returns in the helper goroutine.
DriverReturn ==
    /\ aHelper = "call"
    /\ \E res \in {"ok", "err"} : aDrv' = res
    /\ aHelper' = IF aFn = "ping" THEN "send" ELSE "close"
    /\ UNCHANGED <<aFn, aCtx, aBuf, aClosed, aSel, aRet, aFirst, aRace>>
    /\ UNCHANGED restA

\* PingDB's helper, `ch <- conn.PingContext(ctx)`: the send proceeds when
\* the buffer has room or the caller is parked in the select.
HelperSend ==
    /\ aHelper = "send"
    /\ Len(aBuf) < ChanCapOf(aFn) \/ aSel = "parked"
    /\ aBuf' = Append(aBuf, aDrv)
    /\ aHelper' = "close"
    /\ aFirst' = IF aFirst = "none" THEN "drv" ELSE aFirst
    /\ aSel' = IF aSel = "parked" THEN "ch" ELSE aSel
    /\ UNCHANGED <<aFn, aCtx, aDrv, aClosed, aRet, aRace>>
    /\ UNCHANGED restA

\* `close(ch)`, the last statement of either helper.
HelperClose ==
    /\ aHelper = "close"
    /\ aClosed' = TRUE
    /\ aHelper' = "done"
    /\ aFirst' = IF aFirst = "none" THEN "drv" ELSE aFirst
    /\ aSel' = IF aSel = "parked" THEN "ch" ELSE aSel
    /\ UNCHANGED <<aFn, aCtx, aDrv, aBuf, aRet, aRace>>
    /\ UNCHANGED restA

\* The caller reaches the select: it parks when no case can proceed, and
\* takes any one of the cases that can.
CallerSelect ==
    /\ aSel = "enter"
    /\ IF ReadyCases = {} THEN aSel' = "parked" ELSE aSel' \in ReadyCases
    /\ aRace' = (ReadyCases = {"ctx", "ch"})
    /\ UNCHANGED <<aFn, aCtx, aDrv, aHelper, aBuf, aClosed, aRet, aFirst>>
    /\ UNCHANGED restA

\* The body of the case taken: ctx.Err(), or what the helper left.
CallerReturn ==
    /\ aSel \in {"ctx", "ch"}
    /\ aRet = "none"
    /\ aRet' = IF aSel = "ctx" THEN "ctx"
              ELSE IF aFn = "open" THEN OpenResult(aDrv)
              ELSE PingResult(aBuf)
    /\ UNCHANGED <<aFn, aCtx, aDrv, aHelper, aBuf, aClosed, aSel, aFirst, aRace>>
    /\ UNCHANGED restA

InitAdapter ==
    /\ aFn \in {"open", "ping"}
    /\ aCtx \in BOOLEAN
    /\ aDrv = "running"
    /\ aHelper = "call"
    /\ aBuf = <<>>
    /\ aClosed = FALSE
    /\ aSel = "enter"
    /\ aRet = "none"
    /\ aFirst = IF aCtx THEN "ctx" ELSE "none"
    /\ aRace = FALSE

InitSpecAdapter == InitT /\ InitC0 /\ InitH0 /\ InitM0 /\ InitK0 /\ InitQ0 /\ InitL0 /\ InitG0 /\ InitAdapter /\ InitX0 /\ InitR0

NextAdapter ==
    \/ AdapterCancel
    \/ DriverReturn
    \/ HelperSend
    \/ HelperClose
    \/ CallerSelect
    \/ CallerReturn

SpecAdapter == InitSpecAdapter /\ [][NextAdapter]_vars

(***************************************************************************)
(* collector.Collect (part_026, collector.go): the loop over the queries   *)
(* of one collector, with the context, the result sets and what goes on    *)
(* the channel. A query is its position in c.queries; each has one metric  *)
(* family, and a result set has MaxResultRows rows.                        *)
(***************************************************************************)
MaxQueries == 2

MaxResultRows == 2

\* A check that never sees the context cancelled.
CtxCancelledNever(done) == FALSE

\* `if ctx.Err() != nil`
CtxCancelled(done) == done

\* A failed Run that ends the loop.
AfterRunErrorStop(idx, n) == n + 1

\* `continue` after a failed q.Run: the next query.
AfterRunError(idx, n) == idx + 1

\* A result set that is left open after its last row.
CloseRowsNever(open, q) == open

\* `rows.Close()` after the row loop.
CloseRows(open, q) == open \ {q}

\* NewInvalidMetric(context, err), for query q and row r of it (0: none).
CollectInvalid(q, r, e) == [kind |-> "invalid", q |-> q, row |-> r, err |-> e]

\* What mf.Collect(row, ch) sends for row r of query q.
CollectSample(q, r) == [kind |-> "sample", q |-> q, row |-> r, err |-> ""]

\* Target.Gather starts Collect with the scrape's context, which may be
\* cancelled already.
CollectEnter ==
    /\ xPc = "idle"
    /\ xPc' = "loop"
    /\ UNCHANGED <<xCtx, xIdx, xRowN, xOpen, xRan, xOut>>
    /\ UNCHANGED restX

\* The context is cancelled or its deadline passes.
ContextCancel ==
    /\ ~xCtx
    /\ xPc # "returned"
    /\ xCtx' = TRUE
    /\ UNCHANGED <<xPc, xIdx, xRowN, xOpen, xRan, xOut>>
    /\ UNCHANGED restX

\* One turn of `for _, q := range c.queries` up to the row loop: the
\* context check, which ends Collect with one invalid metric and runs the
\* deferred rows.Close() calls; else q.Run, whose error is sent as one
\* invalid metric before the next turn.
CollectTurn ==
    /\ xPc = "loop"
    /\ xIdx <= MaxQueries
    /\ IF CtxCancelled(xCtx)
       THEN /\ xOut' = Append(xOut, CollectInvalid(0, 0, "ctx"))
            /\ xPc' = "returned"
            /\ xOpen' = {}
            /\ UNCHANGED <<xIdx, xRowN, xRan>>
       ELSE \E ok \in BOOLEAN :
               /\ xRan' = Append(xRan, [q |-> xIdx, ok |-> ok])
               /\ IF ok
                  THEN /\ xOpen' = xOpen \cup {xIdx}
                       /\ xPc' = "rows"
                       /\ xRowN' = 0
                       /\ UNCHANGED <<xIdx, xOut>>
                  ELSE /\ xOut' = Append(xOut, CollectInvalid(xIdx, 0, "run"))
                       /\ xIdx' = AfterRunError(xIdx, MaxQueries)
                       /\ UNCHANGED <<xPc, xRowN, xOpen>>
    /\ UNCHANGED xCtx
    /\ UNCHANGED restX

\* One turn of `for rows.Next()`: the row is scanned and handed to the
\* family, or one invalid metric is sent for it. rows.Next() is false
\* after the last row or on an error of the rows.
CollectRows ==
    /\ xPc = "rows"
    /\ xRowN < MaxResultRows
    /\ xRowN' = xRowN + 1
    /\ \E scanned \in BOOLEAN :
          xOut' = Append(xOut, IF scanned THEN CollectSample(xIdx, xRowN + 1)
                                ELSE CollectInvalid(xIdx, xRowN + 1, "scan"))
    /\ UNCHANGED <<xCtx, xPc, xIdx, xOpen, xRan>>
    /\ UNCHANGED restX

\* rows.Next() is false: rows.Close(), then rows.Err() is sent if set.
CollectRowsEnd ==
    /\ xPc = "rows"
    /\ \E rowsErr \in BOOLEAN :
          /\ rowsErr \/ xRowN = MaxResultRows
          /\ xOut' = IF rowsErr THEN Append(xOut, CollectInvalid(xIdx, 0, "rows"))
                    ELSE xOut
    /\ xOpen' = CloseRows(xOpen, xIdx)
    /\ xIdx' = xIdx + 1
    /\ xPc' = "loop"
    /\ UNCHANGED <<xCtx, xRowN, xRan>>
    /\ UNCHANGED restX

\* The loop is over: Collect returns and the deferred rows.Close() calls
\* run.
CollectEnd ==
    /\ xPc = "loop"
    /\ xIdx > MaxQueries
    /\ xPc' = "returned"
    /\ xOpen' = {}
    /\ UNCHANGED <<xCtx, xIdx, xRowN, xRan, xOut>>
    /\ UNCHANGED restX

InitCollect ==
    /\ xCtx \in BOOLEAN
    /\ xPc = "idle"
    /\ xIdx = 1
    /\ xRowN = 0
    /\ xOpen = {}
    /\ xRan = <<>>
    /\ xOut = <<>>

InitSpecCollect == InitT /\ InitC0 /\ InitH0 /\ InitM0 /\ InitK0 /\ InitQ0 /\ InitL0 /\ InitG0 /\ InitA0 /\ InitCollect /\ InitR0

NextCollect ==
    \/ CollectEnter
    \/ ContextCancel
    \/ CollectTurn
    \/ CollectRows
    \/ CollectRowsEnd
    \/ CollectEnd

SpecCollect == InitSpecCollect /\ [][NextCollect]_vars

(***************************************************************************)
(* Serving /metrics (promhttp.go): net/http runs the handler of every      *)
(* request in a goroutine of its own. The handler gathers the targets one  *)
(* after the other; gathering a target runs its query, and Query.Run       *)
(* (part_024) prepares the statement when it reads q.stmt as nil. Each of  *)
(* the ServedTargets targets has one query.                                *)
(***************************************************************************)
MaxRequests == 2

ServedTargets == 2

Requests == 1 .. MaxRequests

\* The requests that are inside Gather on target n.
Gathering(n) ==
    {r \in Requests : rPc[r] \in {"gather", "prepare", "query"} /\ rAt[r] = n}

\* The handler is called for request r: contextFor, then gatherer.Gather()
\* starts with the first target. Nothing is locked or waited for.
ServeRequest(r) ==
    /\ rPc[r] = "idle"
    /\ rPc' = [rPc EXCEPT ![r] = "gather"]
    /\ UNCHANGED <<rAt, rStmt, rPrepares>>
    /\ UNCHANGED restR

\* Query.Run, `if q.stmt == nil`: a read without synchronisation, which
\* sees q.stmt or, while another goroutine is in Gather on the target,
\* possibly still nil.
RunCheck(r) ==
    /\ rPc[r] = "gather"
    /\ \E seen \in {rStmt[rAt[r]]} \cup
                   (IF Gathering(rAt[r]) # {r} THEN {0} ELSE {}) :
          rPc' = [rPc EXCEPT ![r] = IF seen = 0 THEN "prepare" ELSE "query"]
    /\ UNCHANGED <<rAt, rStmt, rPrepares>>
    /\ UNCHANGED restR

\* Query.Run: conn.PrepareContext, then q.conn = conn and q.stmt = stmt.
RunPrepare(r) ==
    /\ rPc[r] = "prepare"
    /\ rPrepares' = [rPrepares EXCEPT ![rAt[r]] = @ + 1]
    /\ rStmt' = [rStmt EXCEPT ![rAt[r]] = rPrepares[rAt[r]] + 1]
    /\ rPc' = [rPc EXCEPT ![r] = "query"]
    /\ UNCHANGED rAt
    /\ UNCHANGED restR

\* q.stmt.QueryContext and the rest of the target's Gather; then the next
\* target, or gatherer.Gather() returns to the handler.
RunQuery(r) ==
    /\ rPc[r] = "query"
    /\ IF rAt[r] < ServedTargets
       THEN /\ rAt' = [rAt EXCEPT ![r] = @ + 1]
            /\ rPc' = [rPc EXCEPT ![r] = "gather"]
       ELSE /\ rPc' = [rPc EXCEPT ![r] = "respond"]
            /\ UNCHANGED rAt
    /\ UNCHANGED <<rStmt, rPrepares>>
    /\ UNCHANGED restR

\* The handler encodes the metric families and writes the response.
ServeRespond(r) ==
    /\ rPc[r] = "respond"
    /\ rPc' = [rPc EXCEPT ![r] = "done"]
    /\ UNCHANGED <<rAt, rStmt, rPrepares>>
    /\ UNCHANGED restR

InitServe ==
    /\ rPc = [r \in Requests |-> "idle"]
    /\ rAt = [r \in Requests |-> 1]
    /\ rStmt = [n \in 1 .. ServedTargets |-> 0]
    /\ rPrepares = [n \in 1 .. ServedTargets |-> 0]

InitSpecServe == InitT /\ InitC0 /\ InitH0 /\ InitM0 /\ InitK0 /\ InitQ0 /\ InitL0 /\ InitG0 /\ InitA0 /\ InitX0 /\ InitServe

NextServe ==
    \E r \in Requests :
        \/ ServeRequest(r)
        \/ RunCheck(r)
        \/ RunPrepare(r)
        \/ RunQuery(r)
        \/ ServeRespond(r)

SpecServe == InitSpecServe /\ [][NextServe]_vars

(***************************************************************************)
(* Scheduling: every goroutine of a scrape that can take a step eventually *)
(* does. Cancellation, new scrapes and the return of the driver from       *)
(* sql.Open and PingContext are left to the environment.                   *)
(***************************************************************************)
Progress ==
    \/ OpenConnectionReturn
    \/ GatherPing
    \/ PingDBReturn
    \/ \E c \in Collectors : CollectQuery(c) \/ CollectNext(c) \/ CollectSend(c)
    \/ CloseChan
    \/ GatherRecv
    \/ GatherCancelled
    \/ GatherDrain
    \/ GatherFinish

FairSpec == Spec /\ WF_vars(Progress)

(***************************************************************************)
(* Properties.                                                             *)
(***************************************************************************)

Count(name) ==
    Cardinality({i \in DOMAIN synth : synth[i].desc.name = name})

CountLabelled(name) ==
    Cardinality({i \in DOMAIN synth :
                    synth[i].desc.name = name /\ synth[i].desc.constLabels = ConstLabels})

Started == \E c \in Collectors : pc[c] # "idle"

HasCause(es) == \E e \in es : e[2] = "ctx"

\* C1: whatever the outcome of a Gather, what it returns holds exactly one
\* `up` and exactly one `scrape_duration_seconds` sample, each with the
\* target's const labels; at no time are there two.
C1_ExactlyOneUpAndDuration ==
    /\ Count("up") <= 1
    /\ Count("scrape_duration_seconds") <= 1
    /\ pcG = "done" =>
          /\ Count("up") = 1
          /\ CountLabelled("up") = 1
          /\ Count("scrape_duration_seconds") = 1
          /\ CountLabelled("scrape_duration_seconds") = 1
          /\ \A s \in result : s.fam \notin {"up", "scrape_duration_seconds"}

C1_Witness == pcG = "done" /\ openTask = "err" /\ Count("up") = 1

\* C2: when sql.Open failed, the ping failed or the context expired before
\* the collectors were started, the Gather reports up=0, has run no
\* collector and no query, returns no collector sample and a non-empty
\* error list.
C2_DownSkipsCollectors ==
    (pcG = "done" /\ (openTask = "err" \/ pingTask = "err" \/ early)) =>
        /\ UpValue = 0
        /\ ~Started
        /\ \A q \in Queries : runs[q] = "no"
        /\ result = {}
        /\ errs # {}

C2_Witness == pcG = "done" /\ pingTask = "err" /\ UpValue = 0 /\ ~ctxDone

\* C3: once a synthetic sample is emitted, every collector started for the
\* scrape has returned and nothing is left in the sample stream.
C3_SyntheticAfterCollectors ==
    synth # <<>> => /\ \A c \in Collectors : pc[c] \in {"idle", "done"}
                    /\ chan = <<>>
                    /\ \A c \in Collectors : pending[c] = <<>>

C3_Witness == synth # <<>> /\ UpValue = 1 /\ result # {} /\ ctxDone

\* C4: a Gather that begins with a handle makes no OpenConnection call and
\* keeps the handle; one that begins without makes exactly one, also after
\* a scrape in which the open failed; a Gather makes at most one PingDB
\* call, and only with a handle.
C4_OpenOncePerScrape ==
    /\ opens <= 1
    /\ pings <= 1
    /\ hadHandle => (opens = 0 /\ handle = Handle)
    /\ pings = 1 => handle = Handle
    /\ (pcG \notin {"idle"} /\ ~hadHandle) => opens = 1

C4_Witness ==
    pcG = "done" /\ prevUp = "down" /\ ~hadHandle /\ opens = 1 /\ pings = 1

\* C5: whatever the previous scrape reported, a Gather in which a handle
\* exists or is opened, the ping succeeds and the context has not expired
\* before the collectors start runs the collectors and reports up=1.
C5_DownNotSticky ==
    (pcG = "done" /\ handle = Handle /\ pingTask = "ok" /\ ~early) =>
        /\ UpValue = 1
        /\ \A c \in Collectors : pc[c] = "done"

C5_Witness == pcG = "done" /\ prevUp = "down" /\ UpValue = 1

Running(c) == pc[c] \notin {"idle", "done"}

\* C6: every collector a Gather has started eventually returns, also when
\* the aggregator stops on cancellation and when more samples are produced
\* than the channel holds; and when Gather has returned none is running.
C6_CollectorsTerminate ==
    /\ \A c \in Collectors : Running(c) ~> ~Running(c)
    /\ [](pcG = "done" => \A c \in Collectors : ~Running(c))

C6_Witness ==
    /\ pcG = "drain"
    /\ \E c \in Collectors : pc[c] = "send" /\ Len(chan) = ChanCap

\* C7: a Gather whose context was cancelled returns an error list holding
\* the cancellation cause; once the aggregator has seen the cancellation,
\* or the Gather has returned, nothing more is added to the result.
C7_CancellationCause ==
    [][ /\ (pcG' = "done" /\ ctxDone') => HasCause(errs')
        /\ (pcG \in {"drain", "done"} /\ pcG' \in {"drain", "done"}) =>
              (result' = result /\ errs' = errs) ]_vars

C7_Witness ==
    pcG = "done" /\ ctxDone /\ result # {} /\ \E c \in Collectors : sent[c] \ result # {}

C10_OffsetIgnored ==
    (ctxPc = "out" /\ hdr > 0 /\ off >= hdr) =>
        deadline = (IF cfgT > 0 /\ cfgT < hdr THEN cfgT ELSE hdr)

Min(a, b) == IF a < b THEN a ELSE b

\* C11: for a caller timeout D and an offset O < D, the scrape context has
\* the deadline min(D - O, global.scrape_timeout) when a scrape timeout is
\* configured and D - O when none is; it is never later than D - O.
C11_DeadlineIsMin ==
    (ctxPc = "out" /\ hdr # NoHeader /\ off < hdr) =>
        /\ deadline = (IF cfgT > 0 THEN Min(hdr - off, cfgT) ELSE hdr - off)
        /\ deadline > 0
        /\ deadline <= hdr - off

C11_Witness ==
    /\ ctxPc = "out" /\ off > 0 /\ off < hdr
    /\ cfgT > hdr - off /\ deadline = hdr - off

\* C12, as claimed: every target is gathered under a context that carries
\* the deadline contextFor derived for the scrape.
C12_TargetsUnderDeadline ==
    hPc # "start" => \A t \in Targets : tctx[t] = deadline

\* C13, as claimed: the response is 500 when no target could be opened, and
\* 200 when some target is live, a failed target then showing up=0.
C13_StatusAsClaimed ==
    hPc = "done" =>
        /\ (\A t \in Targets : tres[t] = "down") => status = 500
        /\ (\E t \in Targets : tres[t] = "up") =>
              /\ status = 200
              /\ \A t \in Targets : tres[t] = "down" =>
                    [name |-> "up", target |-> t, value |-> 0] \in GatherersGather(tres).mfs

RECURSIVE SumValues(_, _)
SumValues(mfs, j) ==
    IF j > Len(mfs) THEN 0 ELSE Len(mfs[j].values) + SumValues(mfs, j + 1)

RECURSIVE DeclaredOrder(_, _)
\* The (family, value column) pairs of a query in declared order.
DeclaredOrder(mfs, j) ==
    IF j > Len(mfs) THEN <<>>
    ELSE [i \in 1 .. Len(mfs[j].values) |-> <<j, mfs[j].values[i]>>]
         \o DeclaredOrder(mfs, j + 1)

\* C14: for a row that scans, collector.Collect sends as many samples as
\* the families of the query have value columns together: one sample per
\* value column of each family, in declared order, and nothing else.
C14_OneSamplePerValueColumn ==
    mPc = "collected" =>
        /\ ~mPanic
        /\ Len(mOut) = SumValues(families, 1)
        /\ \A i \in DOMAIN mOut : mOut[i].kind = "sample"
        /\ [i \in DOMAIN mOut |-> <<mOut[i].fam, mOut[i].col>>] = DeclaredOrder(families, 1)

C14_Witness ==
    /\ mPc = "collected" /\ Len(families) = 2
    /\ Len(families[1].values) = 2 /\ Len(families[2].values) = 1
    /\ Len(mOut) = 3

Strictly(pairs) ==
    \A i \in 1 .. Len(pairs) - 1 : Rank(pairs[i][1]) < Rank(pairs[i + 1][1])

\* C15, as claimed: the label pairs of every sample are sorted by label
\* name and hold no label name twice.
C15_LabelPairsSortedUnique ==
    \A i \in DOMAIN mOut : mOut[i].kind = "sample" => Strictly(mOut[i].labelPairs)

Has(pairs, p) == \E i \in DOMAIN pairs : pairs[i] = p

\* C16, as claimed: Collect on a family with key labels, a value label and
\* two value columns a and b, for a record with all the columns, sends two
\* samples; each holds the record's value for every key label, the first
\* has the value label a and the value of column a, the second b.
C16_ValueLabelHoldsColumnName ==
    ( /\ mPc \in {"direct", "directUL"}
      /\ families[1].valueLabel # ""
      /\ Len(families[1].values) = 2
      /\ rowCols = AllColumns ) =>
        /\ ~mPanic
        /\ Len(mOut) = 2
        /\ \A i \in 1 .. 2 :
              /\ mOut[i].val = RowValue(families[1].values[i])
              /\ Has(mOut[i].labelPairs, <<families[1].valueLabel, families[1].values[i]>>)
              /\ \A j \in DOMAIN families[1].keyLabels :
                    Has(mOut[i].labelPairs,
                        <<families[1].keyLabels[j], RowValue(families[1].keyLabels[j])>>)

Required(m) ==
    {m.keyLabels[i] : i \in DOMAIN m.keyLabels} \cup {m.values[i] : i \in DOMAIN m.values}

TextOf(i) == QueryText(kMetrics, QueryConfigOf(kMetrics, i))

RunsOfText(t) ==
    Cardinality({n \in DOMAIN kExec : QueryText(kMetrics, kExec[n].qc) = t})

RunsFeeding(i) ==
    {n \in DOMAIN kExec : \E j \in DOMAIN kExec[n].mfs : kExec[n].mfs[j] = i}

KeyColumns(metrics, mfs) ==
    UNION {{metrics[mfs[j]].keyLabels[i] : i \in DOMAIN metrics[mfs[j]].keyLabels} :
             j \in DOMAIN mfs}

ValueColumns(metrics, mfs) ==
    UNION {{metrics[mfs[j]].values[i] : i \in DOMAIN metrics[mfs[j]].values} :
             j \in DOMAIN mfs}

Conflicts(qc) ==
    KeyColumns(kMetrics, QueryMFs(kMetrics, qc)) \cap ValueColumns(kMetrics, QueryMFs(kMetrics, qc))

\* C19: the construction fails, with an error naming such a column, when
\* and only when a column is a key label of one family of a query and a
\* value column of the same or another family of it, whichever was
\* declared first; otherwise the column types of every Query are KEY for
\* all key-label columns and VALUE for all value columns of its families,
\* and nothing else.
C19_KeyValueConflict ==
    /\ kPc = "failed" =>
          /\ kErr # ""
          /\ \E qc \in QueryConfigs(kMetrics) : kErr \in Conflicts(qc)
    /\ kPc \notin {"config", "failed"} =>
          /\ \A qc \in QueryConfigs(kMetrics) : Conflicts(qc) = {}
          /\ Len(kQueries) = Cardinality(QueryConfigs(kMetrics))
          /\ \A n \in DOMAIN kQueries :
                LET keys == KeyColumns(kMetrics, kQueries[n].mfs)
                    vals == ValueColumns(kMetrics, kQueries[n].mfs)
                IN kQueries[n].columnTypes =
                       [c \in keys \cup vals |->
                           IF c \in keys THEN columnTypeKey ELSE columnTypeValue]

C19_Witness ==
    /\ kPc = "failed" /\ kErr = "a" /\ Len(kMetrics) = 2
    /\ kMetrics[1].keyLabels = <<>> /\ kMetrics[1].values = <<"a">>
    /\ kMetrics[2].keyLabels = <<"a">> /\ kMetrics[2].values = <<"b">>

Executed(e) == e.out \in {"rows", "queryErr"}

\* C20, as claimed: over the Run calls of a Query the statement is
\* prepared at most once and every Run that executes uses it; a Run with
\* another handle than that of the first Run panics and does not execute.
C20_PinnedToFirstRun ==
    /\ Cardinality({n \in DOMAIN qHist : qHist[n].prepared}) <= 1
    /\ \A n \in DOMAIN qHist : Executed(qHist[n]) => qHist[n].stmt = 1
    /\ \A n \in DOMAIN qHist :
          qHist[n].conn # qHist[1].conn => qHist[n].out = "panic"

\* C20, amended: over the Run calls of a Query the statement is prepared
\* at most once and every Run that executes uses it; once a Run has got
\* the statement prepared, a Run with another handle than that Run's
\* panics, neither preparing nor executing; before that, and with that
\* handle, no Run panics.
C20_PinnedToPreparingRun ==
    /\ Cardinality({n \in DOMAIN qHist : qHist[n].prepared}) <= 1
    /\ qPrepares <= 1
    /\ \A n \in DOMAIN qHist :
          /\ Executed(qHist[n]) => qHist[n].stmt = 1
          /\ qHist[n].out = "panic" <=>
                \E k \in 1 .. n - 1 : qHist[k].prepared /\ qHist[k].conn # qHist[n].conn
          /\ qHist[n].out = "panic" => (~qHist[n].prepared /\ qHist[n].stmt = 0)

C20_Witness ==
    /\ Len(qHist) = 3
    /\ qHist[1].conn = "h" /\ qHist[1].prepared
    /\ qHist[2].conn = "h" /\ qHist[2].out = "rows" /\ ~qHist[2].prepared
    /\ qHist[3].conn = "h2" /\ qHist[3].out = "panic"

\* C21: ScanRow fails exactly when a column of the query's column-type map
\* is absent from the result set's columns or the driver's scan fails, and
\* for absent columns the error lists exactly the absent ones: each of
\* them, and no column that is present.
C21_ErrorListsMissingColumns ==
    /\ mPc = "collected" =>
          ScanRowMissing(NewQuery(families).columnTypes, rowCols) = {}
    /\ (mPc = "scanerr" /\ ScanRowMissing(NewQuery(families).columnTypes, rowCols) # {}) =>
          mErr.columns = ScanRowMissing(NewQuery(families).columnTypes, rowCols)

Loaded == lPc \notin {"file", "rejected"}

\* The names of the labels a static config declares.
StaticLabelNames(s) == {l[1] : l \in s.labels}

\* The names of the labels a metric declares.
MetricLabelNames(m) == {Labels(m)[i] : i \in DOMAIN Labels(m)}

NoReservedLabel(c) ==
    /\ \A m \in ConfigMetrics(c) : MetricLabelNames(m) \cap {"job", "instance"} = {}
    /\ \A i \in DOMAIN c.jobs : \A n \in DOMAIN c.jobs[i].static :
          StaticLabelNames(c.jobs[i].static[n]) \cap {"job", "instance"} = {}

\* C22: no successfully loaded configuration has a metric key label, a
\* metric value label or a static-config label named job or instance;
\* a configuration with one is rejected when it is loaded.
C22_ReservedLabelRejected == Loaded => NoReservedLabel(lCfg)

\* The metrics collected from the targets of a job.
JobMetrics(c, j) ==
    UNION {{c.collectors[j.resolved[n]].metrics[m] :
               m \in DOMAIN c.collectors[j.resolved[n]].metrics} :
              n \in DOMAIN j.resolved}

NoLabelCollision(c) ==
    \A i \in DOMAIN c.jobs : \A n \in DOMAIN c.jobs[i].static :
        c.jobs[i].static[n].targets # {} =>
            \A m \in JobMetrics(c, c.jobs[i]) :
                MetricLabelNames(m) \cap StaticLabelNames(c.jobs[i].static[n]) = {}

\* C23: no successfully loaded configuration has a metric with a label
\* named like a static-config label of a target the metric is collected
\* from; such a configuration is rejected when it is loaded.
C23_LabelCollisionRejected == Loaded => NoLabelCollision(lCfg)

JobTargets(j) == UNION {j.static[n].targets : n \in DOMAIN j.static}

CollectorsAndTargets(c) ==
    \A i \in DOMAIN c.jobs :
        Len(c.jobs[i].collectors) >= 1 /\ JobTargets(c.jobs[i]) # {}

\* C24: every job of a successfully loaded configuration has at least
\* one collector and at least one target; a job without a collector or
\* without a target is rejected when the configuration is loaded.
C24_JobHasCollectorAndTarget == Loaded => CollectorsAndTargets(lCfg)

NamesResolve(c) ==
    /\ \A a, b \in DOMAIN c.collectors :
          a # b => c.collectors[a].name # c.collectors[b].name
    /\ \A a, b \in DOMAIN c.jobs : a # b => c.jobs[a].name # c.jobs[b].name
    /\ \A i \in DOMAIN c.jobs :
          /\ Len(c.jobs[i].resolved) = Len(c.jobs[i].collectors)
          /\ \A n \in DOMAIN c.jobs[i].collectors :
                /\ c.jobs[i].resolved[n] \in DOMAIN c.collectors
                /\ c.collectors[c.jobs[i].resolved[n]].name = c.jobs[i].collectors[n]

\* C25: a configuration loads only if its collector names are pairwise
\* distinct, its job names are pairwise distinct and every collector
\* name of a job is the name of a defined collector; the resolved
\* collectors of each job then are those names' collectors, in the order
\* of the names.
C25_NamesUniqueAndResolved == Loaded => NamesResolve(lCfg)

\* [a-zA-Z_:][a-zA-Z0-9_:]* on the characters of a name.
MatchesMetricName(n) ==
    /\ Len(n) >= 1
    /\ n[1] \in NameCharacters \ {"0", "1"}
    /\ \A i \in DOMAIN n : n[i] \in NameCharacters

MetricNamesValid(c) == \A m \in ConfigMetrics(c) : MatchesMetricName(m.name)

\* A configuration that keeps every rule of the configuration format.
ValidConfig(c) ==
    /\ NoReservedLabel(c)
    /\ NoLabelCollision(c)
    /\ CollectorsAndTargets(c)
    /\ NamesResolve(c)
    /\ MetricNamesValid(c)

\* C26: the rendering of a valid configuration is accepted by the loader
\* and loads into a configuration equal to the rendered one, data source
\* names included.
C26_RenderLoadRoundTrip ==
    (lPc \in {"reloaded", "unloadable"} /\ ValidConfig(lCfg)) =>
        (lPc = "reloaded" /\ lCfg2 = lCfg)

\* C27: every metric name of a successfully loaded configuration matches
\* [a-zA-Z_:][a-zA-Z0-9_:]*, and a metric family is exported under
\* exactly the configured name.
C27_MetricNameCheckedNotRewritten ==
    /\ Loaded => MetricNamesValid(lCfg)
    /\ \A p \in lNames : p[2] = p[1]

Returned == mgRet # "none"

\* The families named n that gatherer g returned.
SourceFamilies(g, n) ==
    {i \in DOMAIN srcs[g].mfs : srcs[g].mfs[i].name = n}

RECURSIVE SamplesFrom(_, _)
\* The samples of the input families named n, gatherer after gatherer.
SamplesFrom(g, n) ==
    IF g > Len(srcs) THEN <<>>
    ELSE (IF SourceFamilies(g, n) = {} THEN <<>>
          ELSE srcs[g].mfs[CHOOSE i \in SourceFamilies(g, n) : TRUE].metric)
         \o SamplesFrom(g + 1, n)

InputNames ==
    UNION {{srcs[g].mfs[i].name : i \in DOMAIN srcs[g].mfs} : g \in DOMAIN srcs}

\* C28: in the merged output every family name appears exactly once, and
\* the samples of the merged family are the samples of all input families
\* of that name, concatenated in the order of the sources; no sample is
\* lost and none is there twice.
C28_OneFamilyPerName ==
    Returned =>
        /\ \A i, j \in DOMAIN mgMfs : i # j => mgMfs[i].name # mgMfs[j].name
        /\ {mgMfs[i].name : i \in DOMAIN mgMfs} = InputNames
        /\ \A i \in DOMAIN mgMfs : mgMfs[i].metric = SamplesFrom(1, mgMfs[i].name)

\* C29: the merged output is sorted by family name, strictly increasing,
\* for any number of sources and any order of the families of a source.
C29_OutputSortedByName ==
    Returned =>
        \A i, j \in DOMAIN mgMfs :
            i < j => Compare(mgMfs[i].name, mgMfs[j].name) = -1

\* The family named n of gatherer g.
SourceFamily(g, n) == srcs[g].mfs[CHOOSE i \in SourceFamilies(g, n) : TRUE]

\* C30: the merge never returns an error, whatever help texts, types and
\* gatherer errors it meets; a merged family has the help text and the type
\* of the family its first samples come from, which is the one of the
\* earlier gatherer; and every sample of every gatherer merged so far is
\* in a family of its name, once.
C30_ConflictKeepsFirstSide ==
    /\ Returned => (mgRet = "nil" /\ mgIdx > Len(srcs))
    /\ \A i \in DOMAIN mgMfs :
          LET f == mgMfs[i]
          IN /\ f.metric # <<>>
             /\ SourceFamilies(f.metric[1], f.name) # {}
             /\ f.help = SourceFamily(f.metric[1], f.name).help
             /\ f.type = SourceFamily(f.metric[1], f.name).type
             /\ \A a, b \in DOMAIN f.metric : a < b => f.metric[a] < f.metric[b]
    /\ \A g \in 1 .. mgIdx - 1 : \A k \in DOMAIN srcs[g].mfs :
          Cardinality({i \in DOMAIN mgMfs :
                          /\ mgMfs[i].name = srcs[g].mfs[k].name
                          /\ \E a \in DOMAIN mgMfs[i].metric : mgMfs[i].metric[a] = g}) = 1

C30_Witness ==
    /\ mgRet = "nil"
    /\ Len(srcs) = 2
    /\ srcs[1].mfs = <<Family("a", <<"h1", "gauge">>, 1)>>
    /\ srcs[2].mfs = <<Family("a", <<"h2", "counter">>, 2)>>
    /\ mgMfs = <<[name |-> "a", help |-> "h1", type |-> "gauge", metric |-> <<1, 2>>]>>

Opened == aFn = "open" /\ aRet # "none"

\* C31, as claimed: when the context is done before the driver's open has
\* completed, OpenConnection returns the cancellation error and no handle;
\* when the open completes first with an error, that error is returned; a
\* handle is returned only when the open succeeded.
C31_FirstEventDecidesOpen ==
    Opened =>
        /\ aFirst = "ctx" => aRet = "ctx"
        /\ (aFirst = "drv" /\ aDrv = "err") => aRet = "err"
        /\ aRet = "conn" => aDrv = "ok"

\* C31, amended: OpenConnection never waits once the context is done or
\* the open has completed; unless both had happened before the select
\* chose, the one that happened first decides - the cancellation error
\* for the context, the open's error or the handle for the open; when both
\* had happened either may be returned; the cancellation error is returned
\* only for a done context, an error only when the open failed and a
\* handle only when it succeeded.
C31_FirstEventDecidesUnlessBoth ==
    /\ (aFn = "open" /\ aSel = "parked") => (aFirst = "none" /\ ~aCtx /\ ~aClosed)
    /\ Opened =>
          /\ ~aRace =>
                /\ aFirst = "ctx" => aRet = "ctx"
                /\ aFirst = "drv" => aRet = (IF aDrv = "err" THEN "err" ELSE "conn")
          /\ aRet = "ctx" => aCtx
          /\ aRet = "err" => (aDrv = "err" /\ aClosed)
          /\ aRet = "conn" => (aDrv = "ok" /\ aClosed)

C31_Witness ==
    /\ aFn = "open" /\ aRet = "ctx" /\ aFirst = "ctx" /\ ~aRace
    /\ aHelper = "call" /\ aDrv = "running"

Pinged == aFn = "ping" /\ aRet # "none"

\* C32, as claimed: PingDB returns for whichever of the context and the
\* driver's ping is done first: the context's error when the context is
\* done first, the ping's result when the ping completes first.
C32_FirstEventDecidesPing ==
    Pinged =>
        /\ aFirst = "ctx" => aRet = "ctx"
        /\ aFirst = "drv" => aRet = aDrv

\* C32, amended: PingDB never waits once the context is done or the ping
\* has completed, also when the ping never returns; unless both had
\* happened before the select chose, the one that happened first decides;
\* when both had happened either the context's error or the ping's result
\* is returned; nothing else is ever returned.
C32_FirstEventDecidesUnlessBoth ==
    /\ (aFn = "ping" /\ aSel = "parked") => (aFirst = "none" /\ ~aCtx /\ aBuf = <<>>)
    /\ Pinged =>
          /\ ~aRace =>
                /\ aFirst = "ctx" => aRet = "ctx"
                /\ aFirst = "drv" => aRet = aDrv
          /\ aRet = "ctx" => aCtx
          /\ aRet # "ctx" => (aRet = aDrv /\ aBuf = <<aDrv>>)

C32_Witness ==
    /\ aFn = "ping" /\ aRet = "ctx" /\ aFirst = "ctx" /\ ~aRace
    /\ aHelper = "call" /\ aDrv = "running"

\* C40: the helper goroutine of OpenConnection and of PingDB is never
\* blocked on ch: once the driver call has returned, its send finds room
\* in the buffer or a parked receiver, and its close needs neither,
\* whether the caller is still in the select or has returned for the
\* context; a caller that has returned leaves no helper waiting for it.
C40_HelperNeverBlocks ==
    /\ aHelper = "send" => (Len(aBuf) < ChanCapOf(aFn) \/ aSel = "parked")
    /\ Len(aBuf) <= 1
    /\ aHelper = "done" <=> aClosed

C40_Witness ==
    /\ aFn = "ping" /\ aRet = "ctx" /\ aSel = "ctx"
    /\ aHelper = "done" /\ aBuf = <<"ok">> /\ aClosed

\* The calls of Collect that have returned.
Collected == xPc = "returned"

\* The positions of xOut holding a record that satisfies the test.
OutWith(q, r, e) ==
    {i \in DOMAIN xOut : xOut[i].q = q /\ xOut[i].row = r /\ xOut[i].err = e}

\* What was sent for query q: every position of xOut about it.
OutOfQuery(q) == {i \in DOMAIN xOut : xOut[i].q = q}

\* What was sent for row r of query q.
OutOfRow(q, r) == {i \in DOMAIN xOut : xOut[i].q = q /\ xOut[i].row = r}

\* C33: Collect checks the context before each query: a turn of the loop
\* that finds the context cancelled runs no query, sends one invalid metric
\* with the cancellation error and returns.
C33_CancelledTurnReturns ==
    [][(xCtx /\ xPc = "loop" /\ xIdx <= MaxQueries)
         => /\ xRan' = xRan
            /\ xOut' = Append(xOut, CollectInvalid(0, 0, "ctx"))
            /\ xPc' = "returned"]_vars

\* C33 (cancelled on entry): when the context is cancelled before Collect
\* starts, Collect returns having run no query and sent exactly one
\* invalid metric.
C33_CancelledOnEntry ==
    []((xPc = "idle" /\ xCtx)
         => [](Collected => /\ xRan = <<>>
                            /\ xOut = <<CollectInvalid(0, 0, "ctx")>>))

\* C33: both parts of the claim, and the invalid metric of a cancellation
\* is sent once and is the last thing Collect sends.
C33_CancelStopsCollect ==
    /\ C33_CancelledTurnReturns
    /\ C33_CancelledOnEntry
    /\ [](\A i \in OutWith(0, 0, "ctx") : i = Len(xOut) /\ Collected)

\* C33 witness: the context was cancelled after the first query ran, and
\* Collect returned with the cancellation as the last thing sent.
C33_Witness ==
    /\ Collected
    /\ Len(xRan) = 1
    /\ xRan[1].ok
    /\ xOut # <<>>
    /\ xOut[Len(xOut)] = CollectInvalid(0, 0, "ctx")

\* C34: a failed Run yields exactly one invalid metric for its query and
\* the loop goes on to the next query; a row yields one thing, a sample or
\* an invalid metric, never both, and the row loop goes on: a Collect that
\* returned without a cancellation ran every query and, of each result set
\* without an error of the rows, handled every row.
C34_FailuresSkipOneStep ==
    /\ \A i \in DOMAIN xRan :
          ~xRan[i].ok =>
             /\ OutOfQuery(xRan[i].q) = OutWith(xRan[i].q, 0, "run")
             /\ Cardinality(OutOfQuery(xRan[i].q)) = 1
             /\ xIdx > xRan[i].q
    /\ \A q \in 1..MaxQueries : \A r \in 1..MaxResultRows :
          /\ Cardinality(OutOfRow(q, r)) <= 1
          /\ \A i \in OutOfRow(q, r) :
                xOut[i] \in {CollectSample(q, r), CollectInvalid(q, r, "scan")}
    /\ (Collected /\ OutWith(0, 0, "ctx") = {}) =>
          /\ Len(xRan) = MaxQueries
          /\ \A i \in DOMAIN xRan :
                (xRan[i].ok /\ OutWith(xRan[i].q, 0, "rows") = {}) =>
                   \A r \in 1..MaxResultRows : OutOfRow(xRan[i].q, r) # {}

\* C34 witness: the first query failed in Run, the second ran; its first
\* row failed in ScanRow and its second row was collected.
C34_Witness ==
    /\ Collected
    /\ Len(xRan) = 2
    /\ ~xRan[1].ok
    /\ xRan[2].ok
    /\ OutWith(2, 1, "scan") # {}
    /\ CollectSample(2, 2) \in {xOut[i] : i \in DOMAIN xOut}

\* C39: a result set is open only while its rows are read: it is closed
\* when the row loop is over, so none is open at the next turn of the loop
\* or when Collect has returned, whichever way it returned.
C39_ResultSetsClosed ==
    /\ Cardinality(xOpen) <= 1
    /\ xPc \in {"loop", "returned"} => xOpen = {}
    /\ xPc = "rows" => xOpen = {xIdx}

\* C39 witness: Collect returned on a cancellation after a query whose
\* result set had a row that failed to scan and an error of the rows.
C39_Witness ==
    /\ Collected
    /\ xRan # <<>>
    /\ xRan[1].ok
    /\ OutWith(1, 1, "scan") # {}
    /\ OutWith(1, 0, "rows") # {}
    /\ OutWith(0, 0, "ctx") # {}

\* C36: a Run whose PrepareContext fails leaves the Query as it was, with
\* no statement and no handle; the Run after it, whatever its handle, does
\* not panic and attempts the preparation again.
C36_PrepareErrorKeepsState ==
    \A n \in DOMAIN qHist :
        qHist[n].out = "prepareErr" =>
            /\ \A k \in 1 .. n : ~qHist[k].prepared /\ qHist[k].out # "panic"
            /\ n = Len(qHist) => (qStmt = 0 /\ qConn = NoHandle /\ qPrepares = 0)
            /\ n < Len(qHist) =>
                  \/ qHist[n + 1].out = "prepareErr"
                  \/ qHist[n + 1].prepared

\* C36 witness: the preparation failed on one handle and the next Run, on
\* another handle, prepared the statement.
C36_Witness ==
    /\ Len(qHist) = 2
    /\ qHist[1].out = "prepareErr" /\ qHist[1].conn = "h"
    /\ qHist[2].prepared /\ qHist[2].conn = "h2" /\ qHist[2].out = "rows"
    /\ qConn = "h2"

\* C38, as claimed: for an accepted metric config and a record holding every
\* column the family requires, MetricFamily.Collect does not panic, neither
\* in NewMetric's check of the number of label values nor on an index; it
\* sends one sample per value column.
C38_CollectNeverPanics ==
    (mPc \in {"direct", "directUL"} /\ Required(families[1]) \subseteq rowCols) =>
        /\ ~mPanic
        /\ Len(mOut) = Len(families[1].values)
        /\ \A i \in DOMAIN mOut : mOut[i].kind = "sample"

\* NewExporter has built the jobs of the loaded configuration.
JobsBuilt == lPc \in {"jobs", "families", "descs"}

\* C37, as claimed: no two Targets built from a loaded configuration carry
\* the same job and instance const labels, also when a job has several
\* static configs.
C37_TargetIdentityUnique ==
    JobsBuilt =>
        \A a, b \in TargetsBuilt(lCfg) :
            a # b => TargetIdentity(lCfg, a) # TargetIdentity(lCfg, b)

\* C35, as claimed: Gather is never executed on one target by two requests
\* at once, so the statement of a target's query is never prepared twice.
C35_GatherSerializedPerTarget ==
    \A n \in DOMAIN rStmt :
        /\ Cardinality(Gathering(n)) <= 1
        /\ rPrepares[n] <= 1

====
